---- MODULE Spec2Model ----
(***************************************************************************)
(* Signature-session relay of request-my-ehi: the in-memory session store, *)
(* its TTL sweeper and the HTTP handlers create / info / poll / submit.    *)
(*                                                                         *)
(* The server is a single-threaded event loop.  A handler runs without     *)
(* interruption up to its next `await` on I/O or on a timer; the           *)
(* continuation of an `await` on a promise that was resolved by the        *)
(* running task is a promise-reaction job and runs in the microtask        *)
(* checkpoint of that task, before any other task.  So one action of this  *)
(* model is one task together with the microtasks it triggers:             *)
(*   - create, info: whole handler (create awaits the body before it       *)
(*     touches anything);                                                  *)
(*   - poll: PollStart (lookup, status check, waiter registration, timer   *)
(*     start), then either PollTimeout (its timer task) or a wake-up that  *)
(*     is part of the task that called resolve (submit or sweeper);        *)
(*   - submit: SubmitStart (lookup and status checks), the body read       *)
(*     `await c.req.json()`, then SubmitBody (validation and the write);   *)
(*   - the sweeper's setInterval callback: Sweep.                          *)
(* Handlers hold a reference to the session object, which outlives its     *)
(* removal from the Map: `objs` is the heap of session objects and         *)
(* `sessions` the key set of the Map.  `task` names the task that just     *)
(* ran and `sent` holds the HTTP responses it wrote; a request slot keeps  *)
(* the handler's locals while the request is in flight and nothing once it *)
(* is answered.  `accepted` records, per session id, the submit requests   *)
(* answered 200, and `supplied` the body each session was created from.    *)
(* Audit entries are kept without their timestamp strings.                 *)
(***************************************************************************)
EXTENDS Integers, Sequences, FiniteSets, TLC

\* ------------------------------------------------------------------ bounds
MaxSessions == 2
MaxPolls == 2
MaxSubmits == 2
MaxAdvances == 2

\* ------------------------------------------------------- program constants
DATA_TTL_MS == 60 * 60 * 1000
SweepIntervalMs == 60000
DefaultExpiryMinutes == 60
DefaultPollTimeoutSec == 30
DefaultPollTimeout == <<"3", "0">>
MaxPollTimeoutSec == 60

\* JavaScript `undefined` for string-valued fields
Undefined == "<undefined>"

\* ------------------------------------------------------------------ inputs
SessionIds == 1..MaxSessions
PollIds == 1..MaxPolls
SubmitIds == 1..MaxSubmits

\* Clock advances between tasks: one retention window at a time, so that a
\* session is past expiresAt first and past expiresAt + DATA_TTL_MS later.
TimeSteps == {DATA_TTL_MS}

\* Bodies of POST /sessions.  "" is a missing (falsy) field; expiryMinutes is
\* {} when absent and {m} when supplied.
CreateBodies ==
    { [publicKey |-> "pkO", instructions |-> "Please sign", signerName |-> "Pat", expiryMinutes |-> {}],
      [publicKey |-> "pkO", instructions |-> "Please sign", signerName |-> Undefined, expiryMinutes |-> {0}],
      [publicKey |-> "", instructions |-> "Please sign", signerName |-> Undefined, expiryMinutes |-> {}],
      [publicKey |-> "pkO", instructions |-> "", signerName |-> "Pat", expiryMinutes |-> {}] }

\* POST /sessions/:id/submit requests: the JSON body and the headers the
\* handler reads.  "" is a missing (falsy) body field or an absent header.
SubmitRequests ==
    { [ciphertext |-> "ct1", iv |-> "iv1", ephemeralPublicKey |-> "epk1",
       xForwardedFor |-> "10.0.0.1", cfConnectingIp |-> "", userAgent |-> "Mozilla"],
      [ciphertext |-> "ct2", iv |-> "iv2", ephemeralPublicKey |-> "epk2",
       xForwardedFor |-> "", cfConnectingIp |-> "", userAgent |-> ""],
      [ciphertext |-> "", iv |-> "iv1", ephemeralPublicKey |-> "epk1",
       xForwardedFor |-> "", cfConnectingIp |-> "10.0.0.2", userAgent |-> "Mozilla"] }

\* The `timeout` query parameter of a poll: {} when absent, else {its text},
\* a sequence of characters.  Under the hour clock of Spec every timeout is
\* due after one clock step, so one text stands for all.
TimeoutParams == { {<<"9", "0">>} }

VARIABLES
    now,        \* Date.now(), milliseconds
    advances,   \* number of clock advances so far (bounded)
    objs,       \* session objects ever allocated: id -> SignatureSession
    sessions,   \* keys of the `sessions` Map
    polls,      \* poll requests: PollIds -> [pc, sid, arrived, timeoutSec, deadline]
    submits,    \* submit requests: SubmitIds -> [pc, sid]
    task,       \* the task that just ran: [op, req, sid, arg, called]
    sent,       \* responses written by the task that just ran
    accepted,   \* history: session id -> submit requests answered 200
    supplied,   \* history: session id -> the body of its create request
    completing, \* history: session id -> {} or {the envelope of the submit
                \* that took the session to completed}
    client,     \* the owner's and the signer's side: keys, poll client, files
    fax         \* the fax side: provider, FaxJob objects, keys of the `faxJobs`
                \* Map, send and simulate requests in flight

vars == <<now, advances, objs, sessions, polls, submits, task, sent, accepted, supplied,
          completing, client, fax>>

\* No client is modelled: requests arrive from anywhere.
NoClient == [pc |-> "none"]

\* The fax side before any fax request: no FaxJob object, an empty `faxJobs`
\* Map, no request in flight.  `provider` is the module-level choice of
\* getFaxProvider(), fixed for the life of the server.
NoFaxWith(provider) ==
    [provider |-> provider, heap |-> << >>, faxJobs |-> {}, sends |-> {}, sims |-> << >>]
NoFax == NoFaxWith("simulated")

\* A fax job's last activity.
lastActivity(job) == IF job.completedAt # {} THEN CHOOSE t \in job.completedAt : TRUE
                     ELSE job.createdAt

\* The sweeper's second loop: fax jobs are deleted an hour after their last
\* activity.  The FaxJob objects stay with the handlers that hold them.
sweepFaxJobs(f, t) ==
    [f EXCEPT !.faxJobs = { id \in f.faxJobs : ~(t - lastActivity(f.heap[id]) > DATA_TTL_MS) }]

\* A task of the event loop: what ran, for which request slot, on which :id.
\* `arg` is {} or {the request's input}; `called` holds the resolve callbacks
\* the task invoked, each with the session object it was passed.
Task(op, req, id) == [op |-> op, req |-> req, sid |-> id, arg |-> {}, called |-> {}]

\* The task of a handler that read the input `arg`.
TaskOn(op, req, id, arg) == [Task(op, req, id) EXCEPT !.arg = {arg}]

\* resolve(session): the callback of poll p invoked with session object id.
Call(p, id) == [poll |-> p, session |-> id]

\* A request slot before its request arrives, and after it is answered.
IdlePoll == [pc |-> "idle", sid |-> 0, arrived |-> 0, timeoutSec |-> {}, deadline |-> 0]
DonePoll == [pc |-> "done", sid |-> 0, arrived |-> 0, timeoutSec |-> {}, deadline |-> 0]
IdleSubmit == [pc |-> "idle", sid |-> 0]
DoneSubmit == [pc |-> "done", sid |-> 0]

\* ----------------------------------------------------------------- helpers
Min(a, b) == IF a <= b THEN a ELSE b

The(S) == CHOOSE x \in S : TRUE

Range(f) == { f[i] : i \in DOMAIN f }

\* a || b on strings, "" being falsy
OrElse(a, b) == IF a # "" THEN a ELSE b

\* c.json(body, code)
Response(code, body) == [code |-> code, body |-> body]

ErrorBody(msg) == [error |-> msg]

\* A response on the wire: the route, the request slot, the :id of the URL.
Sent(op, req, id, resp) == [op |-> op, req |-> req, sid |-> id, resp |-> resp]

\* ------------------------------------------------------------------- store
\* Mutant of getSession: the lookup still finds sessions the sweeper deleted.
getSessionEver(id) == IF id \in DOMAIN objs THEN {id} ELSE {}

\* store.ts getSession: the Map lookup; {} is `undefined`.
getSession(id) == IF id \in sessions THEN {id} ELSE {}

\* (params.expiryMinutes ?? 60) * 60 * 1000
ttl(params) ==
    (IF params.expiryMinutes = {} THEN DefaultExpiryMinutes
     ELSE The(params.expiryMinutes)) * 60 * 1000

\* Mutant of createSession: the public key and the instructions are swapped.
createSessionSwapped(id, params, t1, t2) ==
    [ id |-> id,
      publicKeyJwk |-> params.instructions,
      instructions |-> params.publicKey,
      signerName |-> params.signerName,
      status |-> "waiting",
      encryptedPayload |-> {},
      createdAt |-> t1,
      expiresAt |-> t2 + ttl(params),
      auditLog |-> << [event |-> "created", ip |-> Undefined, userAgent |-> Undefined] >>,
      waiters |-> << >> ]

\* Mutant of createSession: the session starts with an empty audit log.
createSessionNoAudit(id, params, t1, t2) ==
    [ id |-> id,
      publicKeyJwk |-> params.publicKey,
      instructions |-> params.instructions,
      signerName |-> params.signerName,
      status |-> "waiting",
      encryptedPayload |-> {},
      createdAt |-> t1,
      expiresAt |-> t2 + ttl(params),
      auditLog |-> << >>,
      waiters |-> << >> ]

\* store.ts createSession: the new session object.  t1 and t2 are what the
\* two calls of Date.now() return, for createdAt and then for expiresAt.
createSession(id, params, t1, t2) ==
    [ id |-> id,
      publicKeyJwk |-> params.publicKey,
      instructions |-> params.instructions,
      signerName |-> params.signerName,
      status |-> "waiting",
      encryptedPayload |-> {},
      createdAt |-> t1,
      expiresAt |-> t2 + ttl(params),
      auditLog |-> << [event |-> "created", ip |-> Undefined, userAgent |-> Undefined] >>,
      waiters |-> << >> ]

\* Mutant of isStale: expiry waits for the retention window as well.
isStaleLate(s, t) == t > s.expiresAt + DATA_TTL_MS /\ s.status = "waiting"

\* Mutant of isStale: a session already past the retention window is deleted
\* without being expired first.
isStaleWithinRetention(s, t) ==
    t > s.expiresAt /\ t <= s.expiresAt + DATA_TTL_MS /\ s.status = "waiting"

\* The sweeper's test for the waiting -> expired transition.
isStale(s, t) == t > s.expiresAt /\ s.status = "waiting"

\* Mutant of expire: the waiter list is kept.
expireKeepsWaiters(s) ==
    [s EXCEPT !.status = "expired",
              !.auditLog = Append(@, [event |-> "expired", ip |-> Undefined,
                                      userAgent |-> Undefined])]

\* Mutant of expire: the audit log is replaced by the new entry.
expireRewrites(s) ==
    [s EXCEPT !.status = "expired",
              !.auditLog = << [event |-> "expired", ip |-> Undefined,
                               userAgent |-> Undefined] >>,
              !.waiters = << >>]

\* The sweeper's transition: status and audit entry, waiters emptied.
expire(s) ==
    [s EXCEPT !.status = "expired",
              !.auditLog = Append(@, [event |-> "expired", ip |-> Undefined,
                                      userAgent |-> Undefined]),
              !.waiters = << >>]

\* Mutant of isRemovable: a session is removed as soon as it is past expiresAt.
isRemovableAtExpiry(s, t) == t > s.expiresAt

\* The sweeper's test for removing a session from the Map.
isRemovable(s, t) == t > s.expiresAt + DATA_TTL_MS

\* ------------------------------------------------------------------ routes
\* Mutant of sessionPollResponse: the audit log is sent whatever the status.
sessionPollResponseLeaky(s) ==
    IF s.status = "completed" /\ s.encryptedPayload # {}
    THEN [status |-> s.status,
          encryptedPayload |-> The(s.encryptedPayload),
          auditLog |-> s.auditLog]
    ELSE [status |-> s.status, auditLog |-> s.auditLog]

\* sessionPollResponse
sessionPollResponse(s) ==
    IF s.status = "completed" /\ s.encryptedPayload # {}
    THEN [status |-> s.status,
          encryptedPayload |-> The(s.encryptedPayload),
          auditLog |-> s.auditLog]
    ELSE [status |-> s.status]

\* c.req.query("timeout") || "30": an absent or empty parameter is falsy.
QueryOr(q, d) == IF q = {} \/ q = {<< >>} THEN d ELSE The(q)

Digits == {"0", "1", "2", "3", "4", "5", "6", "7", "8", "9"}

DigitValue(c) ==
    CASE c = "0" -> 0 [] c = "1" -> 1 [] c = "2" -> 2 [] c = "3" -> 3 [] c = "4" -> 4
      [] c = "5" -> 5 [] c = "6" -> 6 [] c = "7" -> 7 [] c = "8" -> 8 [] c = "9" -> 9

\* parseInt step 1: leading white space is skipped.
RECURSIVE StripLeft(_)
StripLeft(str) ==
    IF str # << >> /\ Head(str) = " " THEN StripLeft(Tail(str)) ELSE str

\* parseInt: the longest prefix of radix-10 digits.
RECURSIVE DigitPrefix(_)
DigitPrefix(str) ==
    IF str # << >> /\ Head(str) \in Digits
    THEN <<Head(str)>> \o DigitPrefix(Tail(str))
    ELSE << >>

\* parseInt: the mathematical value of the digit prefix, left to right.
RECURSIVE DigitsValue(_, _)
DigitsValue(acc, ds) ==
    IF ds = << >> THEN acc ELSE DigitsValue(acc * 10 + DigitValue(Head(ds)), Tail(ds))

\* parseInt(str, 10): {} is NaN, else {the integer}.
parseInt(str) ==
    LET trimmed == StripLeft(str)
        signed == trimmed # << >> /\ Head(trimmed) \in {"-", "+"}
        sign == IF trimmed # << >> /\ Head(trimmed) = "-" THEN -1 ELSE 1
        ds == DigitPrefix(IF signed THEN Tail(trimmed) ELSE trimmed)
    IN  IF ds = << >> THEN {} ELSE {sign * DigitsValue(0, ds)}

\* Math.min(a, b) with a possibly NaN: NaN propagates.
MathMin(a, b) == IF a = {} THEN {} ELSE {Min(The(a), b)}

\* Mutant of timeoutSec: the clamp to the maximum is missing.
timeoutSecUnclamped(q) == parseInt(QueryOr(q, DefaultPollTimeout))

\* The effective long-poll timeout in seconds ({} is NaN).
timeoutSec(q) ==
    MathMin(parseInt(QueryOr(q, DefaultPollTimeout)), MaxPollTimeoutSec)

\* Mutant of timerDelay: the seconds are handed to the timer as hours, past
\* every time the clock reaches.
timerDelayHours(t) == IF t = {} \/ The(t) < 0 THEN 0 ELSE The(t) * 1000 * 3600

\* Mutant of timerDelay: the seconds are handed to the timer as milliseconds.
timerDelaySeconds(t) == IF t = {} \/ The(t) < 0 THEN 0 ELSE The(t)

\* setTimeout(..., timeoutSec * 1000): the timer's delay in milliseconds; a
\* NaN or negative delay fires at the next turn of the timers phase.
timerDelay(t) == IF t = {} \/ The(t) * 1000 < 0 THEN 0 ELSE The(t) * 1000

\* c.json on an object of strings: JSON.stringify leaves out the properties
\* whose value is undefined.
json(body) == [ k \in { f \in DOMAIN body : body[f] # Undefined } |-> body[k] ]

\* Mutant of infoResponse: the already-completed check is missing.
infoResponseNoCompleted(id) ==
    IF getSession(id) = {} THEN Response(404, ErrorBody("Session not found"))
    ELSE IF objs[id].status = "expired" THEN Response(410, ErrorBody("Session expired"))
    ELSE Response(200, json([publicKeyJwk |-> objs[id].publicKeyJwk,
                             instructions |-> objs[id].instructions,
                             signerName |-> objs[id].signerName,
                             requestDriversLicense |-> Undefined]))

\* info's response.  The store keeps no requestDriversLicense, so that
\* property of the session is undefined.
infoResponse(id) ==
    IF getSession(id) = {} THEN Response(404, ErrorBody("Session not found"))
    ELSE IF objs[id].status = "expired" THEN Response(410, ErrorBody("Session expired"))
    ELSE IF objs[id].status = "completed"
         THEN Response(409, ErrorBody("Session already completed"))
    ELSE Response(200, json([publicKeyJwk |-> objs[id].publicKeyJwk,
                             instructions |-> objs[id].instructions,
                             signerName |-> objs[id].signerName,
                             requestDriversLicense |-> Undefined]))

\* Mutant of isMissingRequired: only the public key is required.
isMissingPublicKey(body) == body.publicKey = ""

\* create's validation: !publicKey || !instructions.
isMissingRequired(body) == body.publicKey = "" \/ body.instructions = ""

\* Mutant of submitPrecheck: a session past expiresAt is refused by the
\* handler itself.
submitPrecheckByClock(id) ==
    IF getSession(id) = {} THEN {Response(404, ErrorBody("Session not found"))}
    ELSE IF objs[id].status = "expired" \/ now > objs[id].expiresAt
         THEN {Response(410, ErrorBody("Session expired"))}
    ELSE IF objs[id].status = "completed"
         THEN {Response(409, ErrorBody("Session already completed"))}
    ELSE {}

\* Mutant of submitPrecheck: the expired check is missing.
submitPrecheckNoExpired(id) ==
    IF getSession(id) = {} THEN {Response(404, ErrorBody("Session not found"))}
    ELSE IF objs[id].status = "completed"
         THEN {Response(409, ErrorBody("Session already completed"))}
    ELSE {}

\* Mutant of submitPrecheck: the already-completed check is missing.
submitPrecheckNoCompleted(id) ==
    IF getSession(id) = {} THEN {Response(404, ErrorBody("Session not found"))}
    ELSE IF objs[id].status = "expired" THEN {Response(410, ErrorBody("Session expired"))}
    ELSE {}

\* submit's checks before it reads the body: {} to go on, else the response.
submitPrecheck(id) ==
    IF getSession(id) = {} THEN {Response(404, ErrorBody("Session not found"))}
    ELSE IF objs[id].status = "expired" THEN {Response(410, ErrorBody("Session expired"))}
    ELSE IF objs[id].status = "completed"
         THEN {Response(409, ErrorBody("Session already completed"))}
    ELSE {}

\* Mutant of isValidSubmission: the ciphertext is not required.
isValidSubmissionNoCiphertext(body) ==
    ~(body.iv = "" \/ body.ephemeralPublicKey = "")

\* submit's validation of the body it read.
isValidSubmission(body) ==
    ~(body.ciphertext = "" \/ body.iv = "" \/ body.ephemeralPublicKey = "")

\* Mutant of submittedEntry: the caller's address is not recorded.
submittedEntryNoIp(h) ==
    [event |-> "submitted",
     ip |-> Undefined,
     userAgent |-> OrElse(h.userAgent, Undefined)]

\* The audit entry submit pushes.
submittedEntry(h) ==
    [event |-> "submitted",
     ip |-> OrElse(OrElse(h.xForwardedFor, h.cfConnectingIp), Undefined),
     userAgent |-> OrElse(h.userAgent, Undefined)]

\* Mutant of submitWrite: the waiter list is kept.
submitWriteKeepsWaiters(s, body, entry) ==
    [s EXCEPT !.encryptedPayload = {[ciphertext |-> body.ciphertext, iv |-> body.iv,
                                     ephemeralPublicKey |-> body.ephemeralPublicKey]},
              !.status = "completed",
              !.auditLog = Append(@, entry)]

\* Mutant of submitWrite: the status is flipped but the payload is not stored.
submitWriteNoPayload(s, body, entry) ==
    [s EXCEPT !.status = "completed",
              !.auditLog = Append(@, entry),
              !.waiters = << >>]

\* submit's write: payload, status, audit entry, waiters emptied.
submitWrite(s, body, entry) ==
    [s EXCEPT !.encryptedPayload = {[ciphertext |-> body.ciphertext, iv |-> body.iv,
                                     ephemeralPublicKey |-> body.ephemeralPublicKey]},
              !.status = "completed",
              !.auditLog = Append(@, entry),
              !.waiters = << >>]

\* Mutant of woken: a call resumes the handler whether or not its race is
\* already settled.
wokenAll(P, waiters) == Range(waiters)

\* Mutant of woken: single-consumer wake-up, only the first waiter is called.
wokenFirstOnly(P, waiters) ==
    { p \in Range(waiters) : P[p].pc = "suspended" /\ p = Head(waiters) }

\* `for (const resolve of session.waiters) resolve(session)`: the polls whose
\* Promise.race is settled by the call.  For a poll that has already answered
\* the call is a no-op.
woken(P, waiters) == { p \in Range(waiters) : P[p].pc = "suspended" }

\* The poll table once the polls in W have resumed and answered.
resumed(P, W) ==
    [ p \in DOMAIN P |-> IF p \in W THEN DonePoll ELSE P[p] ]

\* Mutant of answers: a woken poll answers as its timer would.
answersWaiting(W, id, heap) ==
    { Sent("poll", p, id, Response(200, [status |-> "waiting"])) : p \in W }

\* The answers of the polls in W, resumed with session object `id`: each one
\* is sessionPollResponse(result), computed in the microtask checkpoint of the
\* task that called resolve, so from the heap that task leaves.
answers(W, id, heap) ==
    { Sent("poll", p, id, Response(200, sessionPollResponse(heap[id]))) : p \in W }

\* ------------------------------------------------------------------ Init
Init ==
    /\ now = 0
    /\ advances = 0
    /\ objs = << >>
    /\ sessions = {}
    /\ polls = [p \in PollIds |-> IdlePoll]
    /\ submits = [r \in SubmitIds |-> IdleSubmit]
    /\ task = Task("init", 0, 0)
    /\ sent = {}
    /\ accepted = [id \in SessionIds |-> {}]
    /\ supplied = << >>
    /\ completing = [id \in SessionIds |-> {}]
    /\ client = NoClient
    /\ fax = NoFax

\* ------------------------------------------------------------------ clock
Advance(d) ==
    /\ advances < MaxAdvances
    /\ now' = now + d
    /\ advances' = advances + 1
    /\ task' = Task("advance", 0, 0)
    /\ sent' = {}
    /\ UNCHANGED <<objs, sessions, polls, submits, accepted, supplied, completing, client, fax>>

\* ------------------------------------------------- POST /sessions (create)
\* d is the time the clock moves between createSession's two calls of
\* Date.now().
CreateSessionAt(body, d) ==
    /\ task' = TaskOn("create", 0, 0, body)
    /\ IF isMissingRequired(body)
       THEN /\ d = 0
            /\ sent' = {Sent("create", 0, 0,
                          Response(400, ErrorBody("publicKey and instructions are required")))}
            /\ UNCHANGED <<now, advances, objs, sessions, polls, submits, accepted, supplied, completing, client, fax>>
       ELSE /\ Len(objs) < MaxSessions
            /\ now' = now + d
            /\ advances' = advances + (IF d > 0 THEN 1 ELSE 0)
            /\ LET id == Len(objs) + 1
                   session == createSession(id, body, now, now')
               IN  /\ objs' = Append(objs, session)
                   /\ sessions' = sessions \cup {id}
                   /\ supplied' = Append(supplied, body)
                   /\ sent' = {Sent("create", 0, id,
                                 Response(201, [sessionId |-> session.id,
                                                signUrl |-> <<"/sign/", session.id>>,
                                                expiresAt |-> session.expiresAt]))}
            /\ UNCHANGED <<polls, submits, accepted, completing, client, fax>>

\* The clock steps of Spec are taken between tasks: both calls of Date.now()
\* in createSession return the same value.
CreateSession(body) == CreateSessionAt(body, 0)

\* --------------------------------------------- GET /sessions/:id/info
GetInfo(id) ==
    /\ task' = Task("info", 0, id)
    /\ sent' = {Sent("info", 0, id, infoResponse(id))}
    /\ UNCHANGED <<now, advances, objs, sessions, polls, submits, accepted, supplied, completing, client, fax>>

\* --------------------------------------------- GET /sessions/:id/poll
\* Up to the suspension in Promise.race.
PollStart(p, id, q) ==
    /\ polls[p].pc = "idle"
    /\ \A p2 \in PollIds : p2 < p => polls[p2].pc # "idle"
    /\ task' = TaskOn("pollStart", p, id, q)
    /\ IF getSession(id) = {}
       THEN /\ polls' = [polls EXCEPT ![p] = DonePoll]
            /\ sent' = {Sent("poll", p, id, Response(404, ErrorBody("Session not found")))}
            /\ objs' = objs
       ELSE IF objs[id].status # "waiting"
       THEN /\ polls' = [polls EXCEPT ![p] = DonePoll]
            /\ sent' = {Sent("poll", p, id, Response(200, sessionPollResponse(objs[id])))}
            /\ objs' = objs
       ELSE /\ objs' = [objs EXCEPT ![id].waiters = Append(@, p)]
            /\ polls' = [polls EXCEPT ![p] = [@ EXCEPT !.pc = "suspended", !.sid = id,
                            !.arrived = now, !.timeoutSec = timeoutSec(q),
                            !.deadline = now + timerDelay(timeoutSec(q))]]
            /\ sent' = {}
    /\ UNCHANGED <<now, advances, sessions, submits, accepted, supplied, completing, client, fax>>

\* The poll's setTimeout callback wins the race.
PollTimeout(p) ==
    /\ polls[p].pc = "suspended"
    /\ now >= polls[p].deadline
    /\ task' = Task("pollTimeout", p, polls[p].sid)
    /\ polls' = [polls EXCEPT ![p] = DonePoll]
    /\ sent' = {Sent("poll", p, polls[p].sid, Response(200, [status |-> "waiting"]))}
    /\ UNCHANGED <<now, advances, objs, sessions, submits, accepted, supplied, completing, client, fax>>

\* ------------------------------------------- POST /sessions/:id/submit
\* Up to `await c.req.json()`.
SubmitStart(r, id) ==
    /\ submits[r].pc = "idle"
    /\ \A r2 \in SubmitIds : r2 < r => submits[r2].pc # "idle"
    /\ task' = Task("submitStart", r, id)
    /\ IF submitPrecheck(id) = {}
       THEN /\ submits' = [submits EXCEPT ![r] = [@ EXCEPT !.pc = "reading", !.sid = id]]
            /\ sent' = {}
       ELSE /\ submits' = [submits EXCEPT ![r] = DoneSubmit]
            /\ sent' = {Sent("submit", r, id, The(submitPrecheck(id)))}
    /\ UNCHANGED <<now, advances, objs, sessions, polls, accepted, supplied, completing, client, fax>>

\* From the body's arrival to the response.
SubmitBody(r, body) ==
    /\ submits[r].pc = "reading"
    /\ task' = [TaskOn("submitBody", r, submits[r].sid, body) EXCEPT !.called =
                    IF isValidSubmission(body)
                    THEN { Call(p, submits[r].sid) : p \in Range(objs[submits[r].sid].waiters) }
                    ELSE {}]
    /\ LET id == submits[r].sid IN
       IF ~isValidSubmission(body)
       THEN /\ submits' = [submits EXCEPT ![r] = DoneSubmit]
            /\ sent' = {Sent("submit", r, id, Response(400,
                          ErrorBody("ciphertext, iv, and ephemeralPublicKey are required")))}
            /\ UNCHANGED <<objs, polls, accepted, completing>>
       ELSE LET W == woken(polls, objs[id].waiters) IN
            /\ objs' = [objs EXCEPT ![id] = submitWrite(@, body, submittedEntry(body))]
            /\ polls' = resumed(polls, W)
            /\ submits' = [submits EXCEPT ![r] = DoneSubmit]
            /\ accepted' = [accepted EXCEPT ![id] = @ \cup {r}]
            /\ completing' = [completing EXCEPT ![id] =
                                  IF objs[id].status = "completed" THEN @
                                  ELSE objs'[id].encryptedPayload]
            /\ sent' = {Sent("submit", r, id, Response(200, [status |-> "completed"]))}
                          \cup answers(W, id, objs')
    /\ UNCHANGED <<now, advances, sessions, supplied, client, fax>>

\* --------------------------------------------------- sweeper (setInterval)
\* The callback runs every SweepIntervalMs from start-up; every value the
\* clock takes after start-up is a multiple of the period.
Sweep ==
    /\ now >= SweepIntervalMs
    /\ task' = [Task("sweep", 0, 0) EXCEPT !.called =
                    UNION { { Call(p, id) : p \in Range(objs[id].waiters) } :
                            id \in { x \in sessions : isStale(objs[x], now) } }]
    /\ LET stale == { id \in sessions : isStale(objs[id], now) }
           W(id) == woken(polls, objs[id].waiters)
       IN  /\ objs' = [id \in DOMAIN objs |-> IF id \in stale THEN expire(objs[id]) ELSE objs[id]]
           /\ sessions' = { id \in sessions : ~isRemovable(objs[id], now) }
           /\ polls' = resumed(polls, UNION { W(id) : id \in stale })
           /\ sent' = UNION { answers(W(id), id, objs') : id \in stale }
    /\ fax' = sweepFaxJobs(fax, now)
    /\ UNCHANGED <<now, advances, submits, accepted, supplied, completing, client>>

\* -------------------------------------------------------------------- Next
Next ==
    \/ \E d \in TimeSteps : Advance(d)
    \/ \E body \in CreateBodies : CreateSession(body)
    \/ \E id \in SessionIds : GetInfo(id)
    \/ \E p \in PollIds, id \in SessionIds, q \in TimeoutParams : PollStart(p, id, q)
    \/ \E p \in PollIds : PollTimeout(p)
    \/ \E r \in SubmitIds, id \in SessionIds : SubmitStart(r, id)
    \/ \E r \in SubmitIds, body \in SubmitRequests : SubmitBody(r, body)
    \/ Sweep

Spec == Init /\ [][Next]_vars

\* ------------------------------------------------------------ type invariant
TypeOK ==
    /\ now \in Nat /\ advances \in 0..MaxAdvances
    /\ sessions \subseteq DOMAIN objs
    /\ \A id \in DOMAIN objs :
         /\ objs[id].id = id
         /\ objs[id].status \in {"waiting", "completed", "expired"}
         /\ Cardinality(objs[id].encryptedPayload) <= 1
         /\ Range(objs[id].waiters) \subseteq PollIds
    /\ \A p \in PollIds : polls[p].pc \in {"idle", "suspended", "done"}
    /\ \A r \in SubmitIds : submits[r].pc \in {"idle", "reading", "done"}

\* ======================================================================
\* Claims
\* ======================================================================
ExpiredEntry == [event |-> "expired", ip |-> Undefined, userAgent |-> Undefined]

\* The polls suspended in Promise.race on session object id.
SuspendedOn(id) == { p \in PollIds : polls[p].pc = "suspended" /\ polls[p].sid = id }

\* A 200 answer to poll p of session id.
PollAnswer(p, id, body) == Sent("poll", p, id, Response(200, body))

\* The view of a completed session a poll answers with.
CompletedView(s) ==
    [status |-> "completed",
     encryptedPayload |-> The(s.encryptedPayload),
     auditLog |-> s.auditLog]

\* The submit response of a successful submission.
SubmitOk(r, id) == Sent("submit", r, id, Response(200, [status |-> "completed"]))

\* ---------------------------------------------------------------------
\* C1: a session's status changes only waiting -> completed (by submit) or
\* waiting -> expired (by the sweeper); completed and expired are terminal.
C1_StatusStep ==
    \A id \in DOMAIN objs :
        objs'[id].status # objs[id].status =>
            /\ objs[id].status = "waiting"
            /\ \/ objs'[id].status = "completed" /\ task'.op = "submitBody"
               \/ objs'[id].status = "expired" /\ task'.op = "sweep"

C1_TerminalStatus == [][C1_StatusStep]_vars

\* ---------------------------------------------------------------------
\* C2: encryptedPayload is present iff status is completed, and once set its
\* value is never changed by a later operation.
C2_PayloadStep ==
    \A id \in DOMAIN objs :
        /\ (objs[id].encryptedPayload # {}) <=> (objs[id].status = "completed")
        /\ (objs'[id].encryptedPayload # {}) <=> (objs'[id].status = "completed")
        /\ objs[id].encryptedPayload # {} =>
               objs'[id].encryptedPayload = objs[id].encryptedPayload

C2_PayloadWriteOnce == [][C2_PayloadStep]_vars

\* ---------------------------------------------------------------------
\* C3: of all the submit requests against one session, at most one is
\* answered 200 {status: completed}.
C3_OneSubmission == \A id \in SessionIds : Cardinality(accepted[id]) <= 1

\* ---------------------------------------------------------------------
\* C4: a submit that starts on a session whose status is already completed
\* is answered 409 and leaves the session (payload, audit log, status,
\* waiters) and everything else in the store as it was.
C4_Step ==
    (task'.op = "submitStart" /\ task'.sid \in sessions
        /\ objs[task'.sid].status = "completed") =>
        /\ sent' = {Sent("submit", task'.req, task'.sid,
                         Response(409, ErrorBody("Session already completed")))}
        /\ submits'[task'.req].pc = "done"
        /\ objs' = objs /\ sessions' = sessions /\ polls' = polls
        /\ accepted' = accepted

C4_RepeatedSubmitRejected == [][C4_Step]_vars

C4_Witness ==
    /\ task.op = "submitStart"
    /\ task.sid \in sessions
    /\ objs[task.sid].status = "completed"
    /\ \E m \in sent : m.op = "submit" /\ m.resp.code = 409

\* ---------------------------------------------------------------------
\* C5: no poll response, immediate or woken, reports status completed without
\* the encryptedPayload and an audit log that contains the submitted entry.
C5_AtomicSubmission ==
    \A m \in sent :
        (m.op = "poll" /\ m.resp.code = 200) =>
            (m.resp.body.status = "completed" =>
                /\ DOMAIN m.resp.body = {"status", "encryptedPayload", "auditLog"}
                /\ m.resp.body.encryptedPayload \in objs[m.sid].encryptedPayload
                /\ \E i \in DOMAIN m.resp.body.auditLog :
                       m.resp.body.auditLog[i].event = "submitted")

C5_Witness ==
    /\ task.op = "submitBody"
    /\ \E m \in sent : m.op = "poll" /\ m.resp.code = 200
                       /\ m.resp.body.status = "completed"

\* ---------------------------------------------------------------------
\* C6: a successful submit wakes every poll suspended on the session, and each
\* of them answers the same completed view (the payload just stored and the
\* audit log); none answers waiting, none stays suspended.
C6_Step ==
    \A r \in SubmitIds, id \in DOMAIN objs :
        (task'.op = "submitBody" /\ SubmitOk(r, id) \in sent') =>
            /\ objs'[id].status = "completed"
            /\ \A p \in SuspendedOn(id) :
                   /\ polls'[p].pc = "done"
                   /\ PollAnswer(p, id, CompletedView(objs'[id])) \in sent'
            /\ \A m \in sent' : m.op = "poll" => m.resp.body.status = "completed"

C6_FanOut == [][C6_Step]_vars

C6_Witness ==
    /\ task.op = "submitBody"
    /\ Cardinality({ m.req : m \in { x \in sent : x.op = "poll" } }) >= 2
    /\ \A m \in sent : m.op = "poll" => m.resp.body = CompletedView(objs[m.sid])

\* ---------------------------------------------------------------------
\* C7: a sweeper tick that finds a waiting session with now > expiresAt sets
\* its status to expired, appends an 'expired' audit entry, and every poll
\* suspended on it answers {status: expired}.
C7_Step ==
    task'.op = "sweep" =>
        \A id \in sessions :
            (objs[id].status = "waiting" /\ now > objs[id].expiresAt) =>
                /\ objs'[id].status = "expired"
                /\ objs'[id].auditLog = Append(objs[id].auditLog, ExpiredEntry)
                /\ \A p \in SuspendedOn(id) :
                       /\ polls'[p].pc = "done"
                       /\ PollAnswer(p, id, [status |-> "expired"]) \in sent'

C7_ExpiryWakes == [][C7_Step]_vars

C7_Witness ==
    /\ task.op = "sweep"
    /\ \E m \in sent : /\ m.op = "poll"
                       /\ m.resp.body = [status |-> "expired"]
                       /\ objs[m.sid].status = "expired"

\* ---------------------------------------------------------------------
\* C8: a poll on a stored session that is not waiting answers at once and
\* registers no waiter; the answer carries encryptedPayload and auditLog iff
\* the status is completed, and only the status for expired and for waiting.
C8_Step ==
    /\ \A m \in sent' :
           (m.op = "poll" /\ m.resp.code = 200) =>
               DOMAIN m.resp.body =
                   IF m.resp.body.status = "completed"
                   THEN {"status", "encryptedPayload", "auditLog"}
                   ELSE {"status"}
    /\ (task'.op = "pollStart" /\ task'.sid \in sessions
           /\ objs[task'.sid].status # "waiting") =>
           /\ polls'[task'.req].pc = "done"
           /\ objs' = objs
           /\ sent' = {PollAnswer(task'.req, task'.sid,
                           IF objs[task'.sid].status = "completed"
                           THEN CompletedView(objs[task'.sid])
                           ELSE [status |-> "expired"])}

C8_ImmediatePoll == [][C8_Step]_vars

C8_Witness ==
    /\ task.op = "pollStart"
    /\ task.sid \in sessions
    /\ objs[task.sid].status = "expired"
    /\ sent = {PollAnswer(task.req, task.sid, [status |-> "expired"])}

\* ---------------------------------------------------------------------
\* C9: a poll that times out answers {status: waiting} and has no side
\* effect: registering changed nothing but the waiters, and after the
\* answer the waiters are again what they were without this poll.
C9_Step ==
    /\ task'.op = "pollStart" =>
           \A id \in DOMAIN objs :
               \/ objs'[id] = objs[id]
               \/ /\ id = task'.sid
                  /\ polls'[task'.req].pc = "suspended"
                  /\ objs'[id] = [objs[id] EXCEPT !.waiters = Append(@, task'.req)]
    /\ task'.op = "pollTimeout" =>
           /\ sent' = {PollAnswer(task'.req, task'.sid, [status |-> "waiting"])}
           /\ objs' = [objs EXCEPT ![task'.sid].waiters =
                           SelectSeq(@, LAMBDA w : w # task'.req)]

C9_TimedOutPollNoSideEffect == [][C9_Step]_vars

\* ---------------------------------------------------------------------
\* C10: waiters is empty unless the status is waiting and a poll on the
\* session is still outstanding; no answered poll remains registered.
C10_WaitersOutstanding ==
    \A id \in DOMAIN objs :
        objs[id].waiters # << >> =>
            /\ objs[id].status = "waiting"
            /\ SuspendedOn(id) # {}
            /\ \A p \in Range(objs[id].waiters) : polls[p].pc = "suspended"

\* ---------------------------------------------------------------------
\* C11: when a transition calls the resolve callback of a poll that has
\* already timed out, the call is a no-op: that poll sends no second response
\* and its request stays answered, the session still leaves waiting with its
\* waiters emptied, and every poll still suspended on it is woken and answers.
C11_Step ==
    \A c \in task'.called :
        polls[c.poll].pc = "done" =>
            /\ \A m \in sent' : ~(m.op = "poll" /\ m.req = c.poll)
            /\ polls'[c.poll] = polls[c.poll]
            /\ objs'[c.session].status # "waiting"
            /\ objs'[c.session].waiters = << >>
            /\ \A p \in SuspendedOn(c.session) :
                   /\ polls'[p].pc = "done"
                   /\ PollAnswer(p, c.session, sessionPollResponse(objs'[c.session])) \in sent'

C11_IdempotentWake == [][C11_Step]_vars

\* A transition has just called a stale callback and a live one: only the
\* live poll answered.
C11_Witness ==
    \E c \in task.called, d \in task.called :
        /\ c.poll # d.poll /\ c.session = d.session
        /\ \A m \in sent : ~(m.op = "poll" /\ m.req = c.poll)
        /\ \E m \in sent : m.op = "poll" /\ m.req = d.poll
        /\ objs[c.session].status # "waiting"

\* ======================================================================
\* The poll handler's timeout computation on its own: a poll request arrives
\* with any `timeout` text, and the handler computes timeoutSec and the
\* delay it hands to setTimeout.
\* ======================================================================
MaxQueryLen == 3

QueryChars == {"0", "3", "6", "9", "-", "+", " ", ".", "e"}

\* Every `timeout` parameter: absent, or a text of at most MaxQueryLen characters.
Queries == {{}} \cup { {str} : str \in UNION { [1..k -> QueryChars] : k \in 0..MaxQueryLen } }

TimeoutSecInit ==
    /\ now = 0
    /\ advances = 0
    /\ objs = << >>
    /\ sessions = {}
    /\ polls = [p \in PollIds |-> IdlePoll]
    /\ submits = [r \in SubmitIds |-> IdleSubmit]
    /\ \E q \in Queries : task = TaskOn("query", 0, 0, q)
    /\ sent = {}
    /\ accepted = [id \in SessionIds |-> {}]
    /\ supplied = << >>
    /\ completing = [id \in SessionIds |-> {}]
    /\ client = NoClient
    /\ fax = NoFax

\* const timeoutSec = Math.min(parseInt(query || "30", 10), 60), and the
\* delay of the timer armed with it.
ComputeTimeoutSec ==
    /\ task.op = "query"
    /\ task' = [task EXCEPT !.op = "timeoutSec"]
    /\ sent' = { [timeoutSec |-> timeoutSec(The(task.arg)),
                  delay |-> timerDelay(timeoutSec(The(task.arg)))] }
    /\ UNCHANGED <<now, advances, objs, sessions, polls, submits, accepted, supplied, completing, client, fax>>

SpecTimeoutSec == TimeoutSecInit /\ [][ComputeTimeoutSec]_vars

\* A text that is a decimal integer: digits only, after an optional minus.
IsInteger(str) ==
    LET ds == IF str # << >> /\ Head(str) = "-" THEN Tail(str) ELSE str
    IN  ds # << >> /\ \A i \in DOMAIN ds : ds[i] \in Digits

RECURSIVE Pow10(_)
Pow10(n) == IF n = 0 THEN 1 ELSE 10 * Pow10(n - 1)

RECURSIVE PositionalSum(_, _)
PositionalSum(ds, i) ==
    IF i > Len(ds) THEN 0
    ELSE DigitValue(ds[i]) * Pow10(Len(ds) - i) + PositionalSum(ds, i + 1)

\* The number a decimal integer text denotes.
Requested(str) ==
    IF Head(str) = "-" THEN 0 - PositionalSum(Tail(str), 1) ELSE PositionalSum(str, 1)

\* ---------------------------------------------------------------------
\* C13: the effective poll timeout is min(requested, 60) seconds for a
\* requested number of seconds and 30 seconds when the parameter is absent,
\* and whatever text the caller supplies the timer of the poll is armed
\* with at most 60 seconds.
C13_EffectiveTimeout ==
    task.op = "timeoutSec" =>
        LET q == The(task.arg)
            r == The(sent)
        IN  /\ q = {} => r.timeoutSec = {DefaultPollTimeoutSec}
            /\ (q # {} /\ IsInteger(The(q))) =>
                   r.timeoutSec = {Min(Requested(The(q)), MaxPollTimeoutSec)}
            /\ r.delay <= MaxPollTimeoutSec * 1000
            /\ r.timeoutSec # {} => The(r.timeoutSec) <= MaxPollTimeoutSec

\* A request for 90 seconds has been clamped to 60.
C13_Witness ==
    /\ task.op = "timeoutSec"
    /\ task.arg = { {<<"9", "0">>} }
    /\ sent = { [timeoutSec |-> {60}, delay |-> 60000] }

\* ======================================================================
\* The relay under a fine clock.  Time passes in steps of TickMs, and a
\* timer that is due runs before the clock moves again: every handler is
\* synchronous and bounded, so the event loop reaches its timers phase
\* within one step of a timer's due time.
\* ======================================================================
TickMs == 10000
MaxTicks == 7
MaxTimedSessions == 1

TimedTimeoutParams == TimeoutParams \cup { {}, {<<"0">>}, {<<"5">>} }

\* The clock may step: no timer is due.
ClockCanStep ==
    /\ advances < MaxTicks
    /\ \A p \in PollIds : polls[p].pc = "suspended" => now < polls[p].deadline

Tick ==
    /\ ClockCanStep
    /\ now' = now + TickMs
    /\ advances' = advances + 1
    /\ task' = Task("tick", 0, 0)
    /\ sent' = {}
    /\ UNCHANGED <<objs, sessions, polls, submits, accepted, supplied, completing, client, fax>>

\* createSession with a clock step between its two calls of Date.now().
CreateSessionAcrossTick(body) == ClockCanStep /\ CreateSessionAt(body, TickMs)

TimedNext ==
    \/ Tick
    \/ \E body \in CreateBodies : Len(objs) < MaxTimedSessions /\ CreateSession(body)
    \/ \E body \in CreateBodies : Len(objs) < MaxTimedSessions /\ CreateSessionAcrossTick(body)
    \/ \E p \in PollIds, id \in SessionIds, q \in TimedTimeoutParams : PollStart(p, id, q)
    \/ \E p \in PollIds : PollTimeout(p)
    \/ \E r \in SubmitIds, id \in SessionIds : SubmitStart(r, id)
    \/ \E r \in SubmitIds, body \in SubmitRequests : SubmitBody(r, body)
    \/ now % SweepIntervalMs = 0 /\ Sweep

SpecTimed == Init /\ [][TimedNext]_vars

\* ---------------------------------------------------------------------
\* C12: a poll that was not woken (its session stayed waiting) answers
\* {status: waiting} no earlier than its effective timeout t after it was
\* received and less than one clock step after that, for every effective
\* timeout t >= 0.
C12_Step ==
    task'.op = "pollTimeout" =>
        LET p == task'.req
            t == polls[p].timeoutSec
        IN  /\ objs[task'.sid].status = "waiting"
            /\ sent' = {PollAnswer(p, task'.sid, [status |-> "waiting"])}
            /\ (t # {} /\ The(t) >= 0) =>
                   /\ now >= polls[p].arrived + The(t) * 1000
                   /\ now < polls[p].arrived + The(t) * 1000 + TickMs

CreatedEntry == [event |-> "created", ip |-> Undefined, userAgent |-> Undefined]

\* info has just answered `code` for session id.
InfoSent(id, code) == \E m \in sent : m.op = "info" /\ m.sid = id /\ m.resp.code = code

\* ---------------------------------------------------------------------
\* C14: info answers 404 for an id not in the store, 410 for an expired
\* session, 409 for a completed one and 200 only for a waiting one; the 200
\* body carries the public key, the instructions and the signer name and no
\* other property; info changes nothing in the session or the store.
C14_Step ==
    task'.op = "info" =>
        LET id == task'.sid IN
        /\ \E r \in { m.resp : m \in sent' } :
              /\ sent' = {Sent("info", 0, id, r)}
              /\ r.code = IF id \notin sessions THEN 404
                          ELSE IF objs[id].status = "expired" THEN 410
                          ELSE IF objs[id].status = "completed" THEN 409
                          ELSE 200
              /\ r.code # 200 => DOMAIN r.body = {"error"}
              /\ r.code = 200 =>
                    /\ {"publicKeyJwk", "instructions"} \subseteq DOMAIN r.body
                    /\ DOMAIN r.body \subseteq {"publicKeyJwk", "instructions", "signerName"}
                    /\ r.body.publicKeyJwk = objs[id].publicKeyJwk
                    /\ r.body.instructions = objs[id].instructions
                    /\ objs[id].signerName # Undefined =>
                           /\ "signerName" \in DOMAIN r.body
                           /\ r.body.signerName = objs[id].signerName
        /\ objs' = objs /\ sessions' = sessions
        /\ polls' = polls /\ submits' = submits

C14_InfoView == [][C14_Step]_vars

\* info has just answered 409 on a session that holds a submission.
C14_Witness ==
    /\ task.op = "info"
    /\ task.sid \in sessions
    /\ objs[task.sid].encryptedPayload # {}
    /\ sent = {Sent("info", 0, task.sid, Response(409, ErrorBody("Session already completed")))}

\* ---------------------------------------------------------------------
\* C15: no step changes the id, public key, instructions or signer name of a
\* session, and info on a waiting session answers exactly the public key,
\* instructions and signer name its create request supplied (no signer name
\* when none was supplied).
C15_Step ==
    /\ \A id \in DOMAIN objs :
          /\ objs'[id].id = objs[id].id
          /\ objs'[id].publicKeyJwk = objs[id].publicKeyJwk
          /\ objs'[id].instructions = objs[id].instructions
          /\ objs'[id].signerName = objs[id].signerName
    /\ (task'.op = "info" /\ task'.sid \in sessions
           /\ objs[task'.sid].status = "waiting") =>
           \E m \in sent' :
              /\ m.op = "info" /\ m.resp.code = 200
              /\ m.resp.body.publicKeyJwk = supplied[task'.sid].publicKey
              /\ m.resp.body.instructions = supplied[task'.sid].instructions
              /\ IF supplied[task'.sid].signerName = Undefined
                 THEN "signerName" \notin DOMAIN m.resp.body
                 ELSE m.resp.body.signerName = supplied[task'.sid].signerName

C16_Step ==
    (task'.op = "create" /\ \E b \in task'.arg : b.publicKey = "" \/ b.instructions = "") =>
        /\ sent' = {Sent("create", 0, 0,
                         Response(400, ErrorBody("publicKey and instructions are required")))}
        /\ objs' = objs
        /\ sessions' = sessions

C17_Step ==
    (task'.op = "create" /\ \E b \in task'.arg : b.publicKey # "" /\ b.instructions # "") =>
        \E id \in DOMAIN objs' :
            /\ id \notin DOMAIN objs
            /\ DOMAIN objs' = DOMAIN objs \cup {id}
            /\ sessions' = sessions \cup {id}
            /\ \A j \in DOMAIN objs : objs'[j] = objs[j]
            /\ objs'[id].id = id
            /\ objs'[id].status = "waiting"
            /\ objs'[id].encryptedPayload = {}
            /\ objs'[id].waiters = << >>
            /\ objs'[id].auditLog = <<CreatedEntry>>
            /\ \E m \in sent' :
                  /\ sent' = {m}
                  /\ m.op = "create" /\ m.resp.code = 201
                  /\ DOMAIN m.resp.body = {"sessionId", "signUrl", "expiresAt"}
                  /\ m.resp.body.sessionId = id
                  /\ m.resp.body.signUrl = <<"/sign/", id>>
                  /\ m.resp.body.expiresAt = objs'[id].expiresAt

C17_CreateAddsOne == [][C17_Step]_vars

\* A second session has just been created beside one that holds a submission.
C17_Witness ==
    /\ task.op = "create"
    /\ \E m \in sent : m.op = "create" /\ m.resp.code = 201
                       /\ objs[m.resp.body.sessionId].auditLog = <<CreatedEntry>>
    /\ \E j \in sessions : objs[j].status = "completed"

\* ---------------------------------------------------------------------
\* C18: every session has expiresAt = createdAt + ttl, ttl being the
\* expiryMinutes its create request supplied (60 when none) in milliseconds.
C18_ExpiresAt ==
    \A id \in DOMAIN objs :
        objs[id].expiresAt =
            objs[id].createdAt
              + (IF supplied[id].expiryMinutes = {} THEN DefaultExpiryMinutes
                 ELSE The(supplied[id].expiryMinutes)) * 60 * 1000

\* ---------------------------------------------------------------------
\* C19: on every step the audit log of every session keeps its entries in
\* place and grows by at most one entry, which is 'submitted' when submit
\* wrote it and 'expired' when the sweeper did; a new session starts with
\* the single entry 'created'.
C19_Step ==
    /\ \A id \in DOMAIN objs :
          LET old == objs[id].auditLog
              new == objs'[id].auditLog
          IN  /\ Len(new) >= Len(old)
              /\ SubSeq(new, 1, Len(old)) = old
              /\ Len(new) <= Len(old) + 1
              /\ Len(new) = Len(old) + 1 =>
                    \/ new[Len(new)].event = "submitted" /\ task'.op = "submitBody"
                    \/ new[Len(new)].event = "expired" /\ task'.op = "sweep"
    /\ \A id \in DOMAIN objs' \ DOMAIN objs :
          /\ task'.op = "create"
          /\ Len(objs'[id].auditLog) = 1
          /\ objs'[id].auditLog[1].event = "created"

C19_AppendOnly == [][C19_Step]_vars

\* The sweeper has just appended 'expired' to a log that began with 'created'.
C19_Witness ==
    /\ task.op = "sweep"
    /\ \E id \in sessions :
          /\ Len(objs[id].auditLog) = 2
          /\ objs[id].auditLog[1].event = "created"
          /\ objs[id].auditLog[2].event = "expired"

\* ---------------------------------------------------------------------
\* C20: a submit that starts on a session whose status is expired is
\* answered 410; the session keeps status expired, no encryptedPayload and
\* its audit log, and nothing else in the store changes.
C20_Step ==
    (task'.op = "submitStart" /\ task'.sid \in sessions
        /\ objs[task'.sid].status = "expired") =>
        /\ sent' = {Sent("submit", task'.req, task'.sid,
                         Response(410, ErrorBody("Session expired")))}
        /\ submits'[task'.req].pc = "done"
        /\ objs'[task'.sid].status = "expired"
        /\ objs'[task'.sid].encryptedPayload = {}
        /\ objs'[task'.sid].auditLog = objs[task'.sid].auditLog
        /\ objs' = objs /\ sessions' = sessions
        /\ accepted' = accepted

C20_ExpiredSubmitRejected == [][C20_Step]_vars

C20_Witness ==
    /\ task.op = "submitStart"
    /\ task.sid \in sessions
    /\ objs[task.sid].status = "expired"
    /\ objs[task.sid].encryptedPayload = {}
    /\ \E m \in sent : m.op = "submit" /\ m.resp.code = 410

\* ======================================================================
\* Claims on submit, not-found and the retention sweep
\* ======================================================================
\* ---------------------------------------------------------------------
\* C21: a submit whose body lacks ciphertext, iv or ephemeralPublicKey is
\* answered 400 and changes nothing: status, encryptedPayload, audit log and
\* waiters of the session are as before, no callback is called and no poll
\* answers.
C21_Step ==
    (task'.op = "submitBody"
        /\ \E b \in task'.arg : b.ciphertext = "" \/ b.iv = "" \/ b.ephemeralPublicKey = "") =>
        /\ sent' = {Sent("submit", task'.req, task'.sid, Response(400,
                        ErrorBody("ciphertext, iv, and ephemeralPublicKey are required")))}
        /\ submits'[task'.req].pc = "done"
        /\ objs' = objs /\ sessions' = sessions
        /\ polls' = polls
        /\ task'.called = {}
        /\ accepted' = accepted

C21_MalformedSubmit == [][C21_Step]_vars

\* A malformed submit has just been refused on a waiting session that has a
\* poll suspended on it.
C21_Witness ==
    /\ task.op = "submitBody"
    /\ \E m \in sent : m.op = "submit" /\ m.resp.code = 400
    /\ task.sid \in sessions
    /\ objs[task.sid].status = "waiting"
    /\ objs[task.sid].encryptedPayload = {}
    /\ SuspendedOn(task.sid) # {}

\* The route a task answers on.
RouteOf(op) ==
    CASE op = "info" -> "info" [] op = "pollStart" -> "poll" [] op = "submitStart" -> "submit"

\* ---------------------------------------------------------------------
\* C22: info, poll and submit that arrive for an id not in the Map (never
\* created, or deleted by the sweeper) answer 404 "Session not found",
\* register no waiter and change nothing in the store.
C22_Step ==
    (task'.op \in {"info", "pollStart", "submitStart"} /\ task'.sid \notin sessions) =>
        /\ sent' = {Sent(RouteOf(task'.op), task'.req, task'.sid,
                         Response(404, ErrorBody("Session not found")))}
        /\ objs' = objs /\ sessions' = sessions
        /\ \A p \in PollIds : polls'[p].pc # "suspended" \/ polls'[p] = polls[p]
        /\ \A r \in SubmitIds : submits'[r].pc # "reading" \/ submits'[r] = submits[r]
        /\ accepted' = accepted

C22_NotFound == [][C22_Step]_vars

\* A poll has just been answered 404 on the id of a session the sweeper
\* deleted.
C22_Witness ==
    /\ task.op = "pollStart"
    /\ task.sid \in DOMAIN objs
    /\ task.sid \notin sessions
    /\ sent = {Sent("poll", task.req, task.sid, Response(404, ErrorBody("Session not found")))}
    /\ objs[task.sid].waiters = << >>

\* The envelope of a submit body.
EnvelopeOf(b) ==
    [ciphertext |-> b.ciphertext, iv |-> b.iv, ephemeralPublicKey |-> b.ephemeralPublicKey]

\* The audit entry a submit with headers h is to leave: the forwarded
\* address (x-forwarded-for, else cf-connecting-ip) and the user agent.
ExpectedEntry(h) ==
    [event |-> "submitted",
     ip |-> IF h.xForwardedFor # "" THEN h.xForwardedFor
            ELSE IF h.cfConnectingIp # "" THEN h.cfConnectingIp ELSE Undefined,
     userAgent |-> IF h.userAgent # "" THEN h.userAgent ELSE Undefined]

WellFormed(b) == b.ciphertext # "" /\ b.iv # "" /\ b.ephemeralPublicKey # ""

\* ---------------------------------------------------------------------
\* C23: a well-formed submit that writes to a waiting session stores the
\* submitted envelope, sets status completed, appends exactly one
\* 'submitted' entry with the caller's address and user agent, calls every
\* registered waiter, leaves waiters empty, makes every suspended poll
\* answer the completed view, and answers {status: completed}.
C23_Step ==
    \A b \in task'.arg :
        (task'.op = "submitBody" /\ WellFormed(b) /\ objs[task'.sid].status = "waiting") =>
            LET id == task'.sid IN
            /\ objs'[id] = [objs[id] EXCEPT !.encryptedPayload = {EnvelopeOf(b)},
                                            !.status = "completed",
                                            !.auditLog = Append(@, ExpectedEntry(b)),
                                            !.waiters = << >>]
            /\ \A j \in DOMAIN objs : j # id => objs'[j] = objs[j]
            /\ sessions' = sessions
            /\ task'.called = { Call(p, id) : p \in Range(objs[id].waiters) }
            /\ \A p \in SuspendedOn(id) :
                   /\ polls'[p].pc = "done"
                   /\ PollAnswer(p, id, CompletedView(objs'[id])) \in sent'
            /\ SubmitOk(task'.req, id) \in sent'
            /\ \A m \in sent' : m.op = "submit" => m = SubmitOk(task'.req, id)

C23_SuccessfulSubmit == [][C23_Step]_vars

\* The first submit on a session has just completed it, from a forwarded
\* address, and a suspended poll has answered.
C23_Witness ==
    /\ task.op = "submitBody"
    /\ SubmitOk(task.req, task.sid) \in sent
    /\ accepted[task.sid] = {task.req}
    /\ Len(objs[task.sid].auditLog) = 2
    /\ objs[task.sid].auditLog[2].ip = "10.0.0.1"
    /\ \E m \in sent : m.op = "poll"

\* ---------------------------------------------------------------------
\* C24: the encryptedPayload any poll returns for a session equals, field
\* for field, the envelope supplied by the submit that completed the session.
C24_OpaqueEnvelope ==
    \A m \in sent :
        (m.op = "poll" /\ m.resp.code = 200) =>
            (m.resp.body.status = "completed" =>
                m.resp.body.encryptedPayload \in completing[m.sid])

\* ---------------------------------------------------------------------
\* C25: a sweeper pass removes from the Map exactly the sessions with
\* now > expiresAt + 1 hour, whatever their status; no other step removes a
\* session; info, poll and submit on a removed id answer 404.
C25_Step ==
    /\ task'.op = "sweep" =>
           sessions' = { id \in sessions : ~(now > objs[id].expiresAt + 60 * 60 * 1000) }
    /\ task'.op # "sweep" => sessions \subseteq sessions'
    /\ (task'.op \in {"info", "pollStart", "submitStart"}
           /\ task'.sid \in DOMAIN objs /\ task'.sid \notin sessions) =>
           \A m \in sent' : m.resp.code = 404

C25_RetentionRemoval == [][C25_Step]_vars

\* A pass has just run after which a completed session is gone from the Map
\* and a session still within its retention window is kept.
C25_Witness ==
    /\ task.op = "sweep"
    /\ \E id \in DOMAIN objs :
          /\ id \notin sessions
          /\ objs[id].status = "completed"
          /\ now > objs[id].expiresAt + 60 * 60 * 1000
    /\ \E id \in sessions : now > objs[id].expiresAt

\* ---------------------------------------------------------------------
\* C26: a session the sweeper deletes is not waiting and has no waiters when
\* it leaves the Map, and no poll is suspended on a session that is not in
\* the Map.
C26_Step ==
    /\ \A id \in sessions \ sessions' :
          /\ objs'[id].status # "waiting"
          /\ objs'[id].waiters = << >>
    /\ \A p \in PollIds :
          polls'[p].pc = "suspended" => polls'[p].sid \in sessions'

C26_WakeBeforeDelete == [][C26_Step]_vars

\* A pass has just expired a waiting session, woken its poll and deleted it.
C26_Witness ==
    /\ task.op = "sweep"
    /\ \E m \in sent :
          /\ m.op = "poll"
          /\ m.sid \notin sessions
          /\ m.resp.body = [status |-> "expired"]
          /\ objs[m.sid].waiters = << >>

\* ---------------------------------------------------------------------
\* C27: submit runs as one atomic step: when it performs the completed
\* transition the session is still in the Map with the status waiting that
\* its guard observed.
C27_Step ==
    \A b \in task'.arg :
        (task'.op = "submitBody" /\ WellFormed(b)) =>
            /\ task'.sid \in sessions
            /\ objs[task'.sid].status = "waiting"

C27_AtomicSubmit == [][C27_Step]_vars


\* ===================================================== end-to-end encryption
\* The owner's scripts (create-signature-session.ts, poll-signature.ts), the
\* signer's page and the relay between them.  WebCrypto is scaled down to
\* arithmetic TLC can compute, keeping what the protocol relies on:
\*   - ECDH P-256 is Diffie-Hellman in the multiplicative group modulo
\*     GroupPrime: a private key is a scalar d, its public key GroupGen^d,
\*     and deriveBits(d, Y) = Y^d, so that both sides derive the same bits;
\*   - AES-GCM is a keystream cipher over units of ByteMod values followed by
\*     an authentication tag modulo TagMod over key, iv and ciphertext:
\*     decrypt fails (OperationError) unless the tag verifies;
\*   - base64 writes one character of Base64Alphabet per unit.
GroupPrime == 23
GroupGen == 5
ByteMod == 4
TagMod == 31
Base64Alphabet == <<"A", "B", "C", "D">>

TagLen == 3

MaxScalar == 2
MaxIv == 1
MaxImageLen == 1
MaxPixel == 1
MaxTimestamp == 1

PrivateScalars == 1..MaxScalar
Ivs == 0..MaxIv
Bytes == 0..(ByteMod - 1)

RECURSIVE ModExp(_, _, _)
ModExp(b, e, m) == IF e = 0 THEN 1 ELSE (b * ModExp(b, e - 1, m)) % m

\* A JSON Web Key as the tuple of its members: kty, crv, the public point
\* and, in a private key only, the private scalar `d`.
\* crypto.subtle.exportKey('jwk', keyPair.publicKey)
publicJwk(d) == <<"EC", "P-256", ModExp(GroupGen, d, GroupPrime)>>

\* crypto.subtle.exportKey('jwk', keyPair.privateKey)
privateJwk(d) == <<"EC", "P-256", ModExp(GroupGen, d, GroupPrime), d>>

\* A key with the member `d` is a private key.
HasPrivateScalar(jwk) == Len(jwk) > 3

\* crypto.subtle.deriveBits({name: 'ECDH', public}, privateKey, 256)
deriveBits(public, private) == ModExp(public[3], private[4], GroupPrime)

RECURSIVE WeightedSum(_)
WeightedSum(c) ==
    IF c = << >> THEN 0 ELSE Len(c) * c[Len(c)] + WeightedSum(SubSeq(c, 1, Len(c) - 1))

\* The GCM authentication tag of ciphertext units c under key and iv, as a
\* number and as the TagLen units that travel behind the ciphertext.
gcmTag(key, iv, c) == (7 * key + 3 * WeightedSum(iv) + WeightedSum(c)) % TagMod

tagUnits(t) == <<t \div (ByteMod * ByteMod), (t \div ByteMod) % ByteMod, t % ByteMod>>

\* The keystream unit at position i.
keystream(key, iv, i) == (key + WeightedSum(iv) + i) % ByteMod

\* btoa(String.fromCharCode(...bytes)): the text of the units from i on
RECURSIVE bufToBase64From(_, _)
bufToBase64From(buf, i) ==
    IF i > Len(buf) THEN "" ELSE Base64Alphabet[buf[i] + 1] \o bufToBase64From(buf, i + 1)

bufToBase64(buf) == bufToBase64From(buf, 1)

CharAt(text, i) == SubSeq(text, i, i)

IsBase64Char(ch) == \E v \in Bytes : Base64Alphabet[v + 1] = ch

Base64Value(ch) == CHOOSE v \in Bytes : Base64Alphabet[v + 1] = ch

\* base64ToBuf: atob and the charCodeAt loop; {} when atob throws on a
\* character outside the alphabet
base64ToBuf(b64) ==
    IF \A i \in 1..Len(b64) : IsBase64Char(CharAt(b64, i))
    THEN {[i \in 1..Len(b64) |-> Base64Value(CharAt(b64, i))]}
    ELSE {}

\* crypto.subtle.encrypt({name: 'AES-GCM', iv}, key, plaintext) on the
\* signer's page: the ciphertext units followed by the tag.
encrypt(key, iv, plaintext) ==
    LET c == [i \in 1..Len(plaintext) |-> (plaintext[i] + keystream(key, iv, i)) % ByteMod]
    IN  c \o tagUnits(gcmTag(key, iv, c))

\* Mutant of decrypt: the authentication tag is not verified.
decryptUnauthenticated(key, iv, data) ==
    IF Len(data) < TagLen THEN {}
    ELSE LET c == SubSeq(data, 1, Len(data) - TagLen)
         IN  {[i \in 1..Len(c) |-> (c[i] + ByteMod - keystream(key, iv, i)) % ByteMod]}

\* crypto.subtle.decrypt({name: 'AES-GCM', iv}, aesKey, data): {} when the
\* promise rejects (the tag does not verify), else {the plaintext}.
decrypt(key, iv, data) ==
    IF Len(data) < TagLen THEN {}
    ELSE LET c == SubSeq(data, 1, Len(data) - TagLen)
             t == SubSeq(data, Len(data) - TagLen + 1, Len(data))
         IN  IF t # tagUnits(gcmTag(key, iv, c)) THEN {}
             ELSE {[i \in 1..Len(c) |-> (c[i] + ByteMod - keystream(key, iv, i)) % ByteMod]}


\* The signer's plaintext payload {signatureImage, timestamp}: the image is a
\* data URL, its prefix followed by the base64 text of the PNG bytes.
DataUrlPrefix == "data:image/png;base64,"

Images == UNION { [1..n -> 0..MaxPixel] : n \in 1..MaxImageLen }

Payloads ==
    { [signatureImage |-> DataUrlPrefix \o bufToBase64(img), timestamp |-> ts] :
        img \in Images, ts \in 0..MaxTimestamp }

\* sigDataUrl.replace(/^data:image\/png;base64,/, '')
stripDataUrlPrefix(url) ==
    IF Len(url) >= Len(DataUrlPrefix) /\ SubSeq(url, 1, Len(DataUrlPrefix)) = DataUrlPrefix
    THEN SubSeq(url, Len(DataUrlPrefix) + 1, Len(url))
    ELSE url

\* new TextEncoder().encode(JSON.stringify(payload)) on the signer's page:
\* the timestamp unit, then one unit per character of the image text.
serialize(payload) ==
    LET img == The(base64ToBuf(stripDataUrlPrefix(payload.signatureImage)))
    IN  [i \in 1..(Len(img) + 1) |-> IF i = 1 THEN payload.timestamp ELSE img[i - 1]]

\* JSON.parse(new TextDecoder().decode(decrypted)): {} when it throws.
parse(buf) ==
    IF Len(buf) = 0 THEN {}
    ELSE {[signatureImage |-> DataUrlPrefix \o bufToBase64From(buf, 2),
           timestamp |-> buf[1]]}


\* ------------------------------------------- the owner's and signer's side
\* A request of a client is handled by the relay's own action; the client
\* reads the response in its next step, before the relay runs another task.
DEFAULT_INSTRUCTIONS ==
    "Please draw your signature below. It will be placed on your health records request form."
ScriptExpiryMinutes == 60

\* What `--expiry-minutes` leaves in `expiryMinutes`: the default, or 0 for a
\* session that is past expiresAt at once.
ScriptExpiries == {ScriptExpiryMinutes, 0}
ScriptPollTimeout == <<"3", "0">>

\* What `--instructions` leaves in `instructions`: the default text, or the
\* content of an @file, which may be empty.
ScriptInstructions == {DEFAULT_INSTRUCTIONS, ""}

\* The headers the signer's browser sends with its submission.
SignerHeaders == [xForwardedFor |-> "10.0.0.1", cfConnectingIp |-> "", userAgent |-> "Mozilla"]

E2EEClient ==
    [ create |-> [pc |-> "start", keyPair |-> {}, request |-> {}, exit |-> {}, stdout |-> {}],
      signer |-> [pc |-> "start", sid |-> 0, publicKeyJwk |-> {}, secret |-> {},
                  envelope |-> {}],
      poll |-> [pc |-> "start", sid |-> 0, privateKey |-> {}, attempt |-> 0, data |-> {},
                exit |-> {}, png |-> {}, metadata |-> {}, stdout |-> {}] ]

\* A step of a client that sends nothing: the relay is left alone.
ClientStep(c) ==
    /\ client' = c
    /\ UNCHANGED <<now, advances, objs, sessions, polls, submits, task, sent, accepted,
                   supplied, completing, fax>>

\* A response the relay has written and its client has not read yet.
CreatePending == client.create.pc = "fetching" /\ task.op = "create"
InfoPending == client.signer.pc = "loading" /\ task.op = "info"
SubmitPending == client.signer.pc = "submitting" /\ \E m \in sent : m.op = "submit"
PollPending ==
    client.poll.pc = "fetching" /\ \E m \in sent : m.op = "poll" /\ m.req = client.poll.attempt
Pending == CreatePending \/ InfoPending \/ SubmitPending \/ PollPending

E2EEInit ==
    /\ now = 0
    /\ advances = 0
    /\ objs = << >>
    /\ sessions = {}
    /\ polls = [p \in PollIds |-> IdlePoll]
    /\ submits = [r \in SubmitIds |-> IdleSubmit]
    /\ task = Task("init", 0, 0)
    /\ sent = {}
    /\ accepted = [id \in SessionIds |-> {}]
    /\ supplied = << >>
    /\ completing = [id \in SessionIds |-> {}]
    /\ client = E2EEClient
    /\ fax = NoFax

\* Mutant of createRequestBody: the exported private key is uploaded.
createRequestBodyPrivate(d, instructions) ==
    [publicKey |-> privateJwk(d), instructions |-> instructions, signerName |-> Undefined,
     expiryMinutes |-> {ScriptExpiryMinutes}]

\* create-signature-session.ts: the body of its POST.  No --signer-name is
\* given, so JSON.stringify drops the member.
createRequestBody(d, instructions) ==
    [publicKey |-> publicJwk(d), instructions |-> instructions, signerName |-> Undefined,
     expiryMinutes |-> {ScriptExpiryMinutes}]

\* create-signature-session.ts up to its fetch: the key pair is generated
\* and the request sent.
RunCreateScript(d, instructions, expiryMinutes) ==
    /\ client.create.pc = "start"
    /\ ClientStep([client EXCEPT
           !.create.pc = "fetching",
           !.create.keyPair = {d},
           !.create.request = {[createRequestBody(d, instructions)
                                   EXCEPT !.expiryMinutes = {expiryMinutes}]}])

\* The relay handles the script's request.
RelayCreate ==
    /\ ~Pending
    /\ client.create.pc = "fetching"
    /\ CreateSession(The(client.create.request))

\* create-signature-session.ts from the response on.
CreateScriptEnds ==
    /\ CreatePending
    /\ LET res == The(sent).resp IN
       ClientStep([client EXCEPT
           !.create.pc = "exited",
           !.create.exit = IF res.code = 201 THEN {0} ELSE {1},
           !.create.stdout =
               IF res.code = 201
               THEN {[sessionId |-> res.body.sessionId, signUrl |-> res.body.signUrl,
                      privateKeyJwk |-> privateJwk(The(client.create.keyPair))]}
               ELSE {}])


\* ---------------------------------------------------------- signer's page
\* The page's submission: the shared secret from the ephemeral private key
\* and the public key it was given, the payload encrypted under it with a
\* fresh iv, and the ephemeral public key.
signerEnvelope(dS, pkO, iv, payload) ==
    [ciphertext |-> bufToBase64(encrypt(deriveBits(pkO, privateJwk(dS)), <<iv>>,
                                        serialize(payload))),
     iv |-> bufToBase64(<<iv>>),
     ephemeralPublicKey |-> publicJwk(dS)]

\* The envelope with the request headers, as the handler reads them.
SubmitRequest(env) ==
    [ciphertext |-> env.ciphertext, iv |-> env.iv,
     ephemeralPublicKey |-> env.ephemeralPublicKey,
     xForwardedFor |-> SignerHeaders.xForwardedFor,
     cfConnectingIp |-> SignerHeaders.cfConnectingIp,
     userAgent |-> SignerHeaders.userAgent]

\* One unit of a base64 text changed.
FlipAt(text, i) ==
    SubSeq(text, 1, i - 1)
        \o Base64Alphabet[((Base64Value(CharAt(text, i)) + 1) % ByteMod) + 1]
        \o SubSeq(text, i + 1, Len(text))

\* The envelopes that differ from env in one place: a unit of the ciphertext
\* or of its tag, a unit of the iv, or the ephemeral public key.
Tampered(env) ==
    { [env EXCEPT !.ciphertext = FlipAt(@, i)] : i \in 1..Len(env.ciphertext) }
    \cup { [env EXCEPT !.iv = FlipAt(@, i)] : i \in 1..Len(env.iv) }
    \cup { [env EXCEPT !.ephemeralPublicKey = publicJwk(k)] :
             k \in { j \in PrivateScalars : publicJwk(j) # env.ephemeralPublicKey } }

\* The signer opens the link the owner passed on.
SignerOpensPage ==
    /\ client.signer.pc = "start"
    /\ client.create.stdout # {}
    /\ ClientStep([client EXCEPT !.signer.pc = "loading",
                                 !.signer.sid = The(client.create.stdout).sessionId])

RelayInfo ==
    /\ ~Pending
    /\ client.signer.pc = "loading"
    /\ GetInfo(client.signer.sid)

\* The page has the session's metadata, or shows an error.
SignerLoads ==
    /\ InfoPending
    /\ LET res == The(sent).resp IN
       ClientStep([client EXCEPT
           !.signer.pc = IF res.code = 200 THEN "loaded" ELSE "failed",
           !.signer.publicKeyJwk = IF res.code = 200 THEN {res.body.publicKeyJwk} ELSE {}])

\* The signer draws and the page encrypts for the public key pk: the key the
\* page loaded, or a different key.
SignerEncrypts(dS, iv, payload, pk) ==
    /\ client.signer.pc = "loaded"
    /\ ClientStep([client EXCEPT
           !.signer.pc = "submitting",
           !.signer.secret = {[d |-> dS, iv |-> iv, payload |-> payload, forKey |-> pk]},
           !.signer.envelope = {signerEnvelope(dS, pk, iv, payload)}])

RelaySubmitStart ==
    /\ ~Pending
    /\ client.signer.pc = "submitting"
    /\ SubmitStart(1, client.signer.sid)

\* The envelopes the relay can read from the page's request: the envelope as
\* the page sent it or, one fault at a time, an envelope made for the loaded
\* key and changed on the way.
InTransit ==
    {The(client.signer.envelope)}
    \cup (IF The(client.signer.secret).forKey \in client.signer.publicKeyJwk
          THEN Tampered(The(client.signer.envelope)) ELSE {})

RelaySubmitBody ==
    /\ ~Pending
    /\ client.signer.pc = "submitting"
    /\ \E env \in InTransit : SubmitBody(1, SubmitRequest(env))

SignerSubmitEnds ==
    /\ SubmitPending
    /\ LET res == (CHOOSE m \in sent : m.op = "submit").resp IN
       ClientStep([client EXCEPT !.signer.pc = IF res.code = 200 THEN "done" ELSE "failed"])


\* ------------------------------------------------------ poll-signature.ts
PollMaxAttempts == MaxPolls

\* Buffer.from(text, 'base64'): characters outside the alphabet are skipped.
RECURSIVE Base64CharsFrom(_, _)
Base64CharsFrom(text, i) ==
    IF i > Len(text) THEN ""
    ELSE (IF IsBase64Char(CharAt(text, i)) THEN CharAt(text, i) ELSE "")
             \o Base64CharsFrom(text, i + 1)

bufferFromBase64(text) == The(base64ToBuf(Base64CharsFrom(text, 1)))

\* Mutant of decryptEnvelope: the received iv is ignored for a fixed one.
decryptEnvelopeFixedIv(privateKey, env) ==
    LET ct == base64ToBuf(env.ciphertext)
    IN  IF ct = {} THEN {}
        ELSE decrypt(deriveBits(env.ephemeralPublicKey, privateKey), <<0>>, The(ct))

\* The completed branch up to `decrypted`: the shared bits from the received
\* ephemeral public key and the script's private key, then AES-GCM decrypt
\* with the received iv.  {} when a step throws.
decryptEnvelope(privateKey, env) ==
    LET iv == base64ToBuf(env.iv)
        ct == base64ToBuf(env.ciphertext)
    IN  IF iv = {} \/ ct = {} THEN {}
        ELSE decrypt(deriveBits(env.ephemeralPublicKey, privateKey), The(iv), The(ct))

\* process.exit(code), or the exit of an uncaught exception (code 1)
Exit(c, code) == [c EXCEPT !.pc = "exited", !.exit = {code}]

\* `continue`: the next attempt's fetch, or "Timed out" after the last one.
Continue(c) ==
    IF c.attempt < PollMaxAttempts THEN [c EXCEPT !.attempt = @ + 1] ELSE Exit(c, 1)

\* Mutant of pollCompleted: a payload that does not decrypt is taken for no
\* signature yet.
pollCompletedLenient(c, data) ==
    LET dec == IF "encryptedPayload" \in DOMAIN data
               THEN decryptEnvelope(The(c.privateKey), data.encryptedPayload) ELSE {}
        payload == IF dec = {} THEN {} ELSE parse(The(dec))
    IN  IF payload = {} THEN Continue(c)
        ELSE [c EXCEPT
                 !.pc = "exited",
                 !.exit = {0},
                 !.png = {bufferFromBase64(stripDataUrlPrefix(The(payload).signatureImage))},
                 !.metadata = {[timestamp |-> The(payload).timestamp,
                                auditLog |-> data.auditLog]},
                 !.stdout = {[signaturePath |-> "signature.png",
                              metadataPath |-> "signature-metadata.json",
                              timestamp |-> The(payload).timestamp]}]

\* The branch `data.status === 'completed'`: decrypt, parse, write the two
\* files, print the summary, exit 0.  An exception on the way is uncaught.
pollCompleted(c, data) ==
    LET dec == IF "encryptedPayload" \in DOMAIN data
               THEN decryptEnvelope(The(c.privateKey), data.encryptedPayload) ELSE {}
        payload == IF dec = {} THEN {} ELSE parse(The(dec))
    IN  IF payload = {} THEN Exit(c, 1)
        ELSE [c EXCEPT
                 !.pc = "exited",
                 !.exit = {0},
                 !.png = {bufferFromBase64(stripDataUrlPrefix(The(payload).signatureImage))},
                 !.metadata = {[timestamp |-> The(payload).timestamp,
                                auditLog |-> data.auditLog]},
                 !.stdout = {[signaturePath |-> "signature.png",
                              metadataPath |-> "signature-metadata.json",
                              timestamp |-> The(payload).timestamp]}]

\* Mutant of pollIteration: an expired session is polled again.
pollIterationExpiredContinues(c, res) ==
    IF res.code # 200 THEN Exit(c, 1)
    ELSE LET seen == [c EXCEPT !.data = {res.body}] IN
         IF res.body.status = "waiting" THEN Continue(seen)
         ELSE IF res.body.status = "expired" THEN Continue(seen)
         ELSE IF res.body.status = "completed" THEN pollCompleted(seen, res.body)
         ELSE Exit(seen, 1)

\* One iteration of the loop from the response on; `data` keeps the body the
\* iteration read.
pollIteration(c, res) ==
    IF res.code # 200 THEN Exit(c, 1)
    ELSE LET seen == [c EXCEPT !.data = {res.body}] IN
         IF res.body.status = "waiting" THEN Continue(seen)
         ELSE IF res.body.status = "expired" THEN Exit(seen, 1)
         ELSE IF res.body.status = "completed" THEN pollCompleted(seen, res.body)
         ELSE Exit(seen, 1)

\* The owner starts the script with the session id and the private key the
\* create script printed; the first attempt's fetch is sent.
StartPollScript ==
    /\ client.poll.pc = "start"
    /\ client.create.stdout # {}
    /\ ClientStep([client EXCEPT
           !.poll.pc = IF PollMaxAttempts >= 1 THEN "fetching" ELSE "exited",
           !.poll.exit = IF PollMaxAttempts >= 1 THEN {} ELSE {1},
           !.poll.sid = The(client.create.stdout).sessionId,
           !.poll.privateKey = {The(client.create.stdout).privateKeyJwk},
           !.poll.attempt = 1])

RelayPollStart ==
    /\ ~Pending
    /\ client.poll.pc = "fetching"
    /\ PollStart(client.poll.attempt, client.poll.sid, {ScriptPollTimeout})

RelayPollTimeout ==
    /\ ~Pending
    /\ \E p \in PollIds : PollTimeout(p)

OwnerReceives ==
    /\ PollPending
    /\ LET m == CHOOSE x \in sent : x.op = "poll" /\ x.req = client.poll.attempt
       IN  ClientStep([client EXCEPT !.poll = pollIteration(@, m.resp)])

\* ------------------------------------------------------------ composition
\* Time passes and the sweeper runs between the exchanges.
ClockAdvances == ~Pending /\ \E d \in TimeSteps : Advance(d)

SweeperRuns == ~Pending /\ Sweep

\* The public keys the page may encrypt for: the one it loaded, or another.
SignerKeys == client.signer.publicKeyJwk \cup { publicJwk(k) : k \in PrivateScalars }

E2EENext ==
    \/ \E d \in PrivateScalars, i \in ScriptInstructions, e \in ScriptExpiries :
         RunCreateScript(d, i, e)
    \/ RelayCreate
    \/ CreateScriptEnds
    \/ SignerOpensPage
    \/ RelayInfo
    \/ SignerLoads
    \/ \E dS \in PrivateScalars, iv \in Ivs, payload \in Payloads, pk \in SignerKeys :
         SignerEncrypts(dS, iv, payload, pk)
    \/ RelaySubmitStart
    \/ RelaySubmitBody
    \/ SignerSubmitEnds
    \/ StartPollScript
    \/ RelayPollStart
    \/ RelayPollTimeout
    \/ OwnerReceives
    \/ ClockAdvances
    \/ SweeperRuns

SpecE2EE == E2EEInit /\ [][E2EENext]_vars


\* ------------------------------------------------------------ claims C28-C30
\* The public key of the key pair the create script generated.
OwnerPublicKey == publicJwk(The(client.create.keyPair))

\* The envelopes the signer's submission can reach the relay as.
Uploaded == {The(client.signer.envelope)} \cup Tampered(The(client.signer.envelope))

\* A key the relay holds or sends is one it was sent, and not a private key.
RelayKeyOk(jwk, received) == jwk = received /\ ~HasPrivateScalar(jwk)

Honest(data) ==
    /\ client.signer.envelope # {}
    /\ data.encryptedPayload = The(client.signer.envelope)
    /\ The(client.signer.secret).forKey = OwnerPublicKey

\* The poll client read a completed session's response.
ReadCompleted(data) == data.status = "completed" /\ "encryptedPayload" \in DOMAIN data

\* decrypt(derive(skO, pkS), iv, encrypt(derive(skS, pkO), iv, P)) == P
RoundTrip(skO, skS, iv, payload) ==
    decrypt(deriveBits(publicJwk(skS), privateJwk(skO)), <<iv>>,
            encrypt(deriveBits(publicJwk(skO), privateJwk(skS)), <<iv>>, serialize(payload)))
        = {serialize(payload)}

RoundTripHolds ==
    \A skO \in PrivateScalars, skS \in PrivateScalars, iv \in Ivs, payload \in Payloads :
        RoundTrip(skO, skS, iv, payload)

\* C29 (crypto round-trip): decrypting under the owner's derivation what was
\* encrypted under the signer's derivation gives the plaintext back, for
\* every pair of key pairs, iv and payload; and a poll client that reads a
\* session completed with the signer's envelope exits 0 with the payload's
\* image bytes in signature.png and its timestamp in the metadata file and
\* in the summary.
C29_RoundTrip ==
    /\ RoundTripHolds
    /\ \A data \in client.poll.data :
         (ReadCompleted(data) /\ Honest(data)) =>
             LET payload == The(client.signer.secret).payload IN
             /\ client.poll.exit = {0}
             /\ client.poll.png =
                  {The(base64ToBuf(stripDataUrlPrefix(payload.signatureImage)))}
             /\ \E meta \in client.poll.metadata : meta.timestamp = payload.timestamp
             /\ \E out \in client.poll.stdout : out.timestamp = payload.timestamp

\* The owner recovered a payload that was encrypted with a non-zero iv.
C29_Witness ==
    /\ client.poll.exit = {0}
    /\ \E data \in client.poll.data : ReadCompleted(data) /\ Honest(data)
    /\ \E s \in client.signer.secret : s.iv # 0 /\ s.payload.timestamp # 0

\* C30 (decryption failure is a hard failure): when the envelope the poll
\* client read was changed on the way or was encrypted for a key other than
\* the owner's, the client has exited with a failure code, has written
\* neither file and has printed no summary; it is not polling again.
C30_HardFailure ==
    \A data \in client.poll.data :
        (ReadCompleted(data) /\ ~Honest(data)) =>
            /\ client.poll.pc = "exited"
            /\ client.poll.exit = {1}
            /\ client.poll.png = {}
            /\ client.poll.metadata = {}
            /\ client.poll.stdout = {}

\* The poll client read an envelope with one unit changed on the way.
C30_Witness ==
    /\ client.poll.pc = "exited"
    /\ \E data \in client.poll.data :
         /\ ReadCompleted(data)
         /\ data.encryptedPayload \in Tampered(The(client.signer.envelope))

\* The poll client read an envelope encrypted for another key than the owner's.
C30_WrongKeyRead ==
    /\ client.poll.pc = "exited"
    /\ \E data \in client.poll.data :
         /\ ReadCompleted(data)
         /\ data.encryptedPayload = The(client.signer.envelope)
         /\ The(client.signer.secret).forKey # OwnerPublicKey


\* ------------------------------------------------------------ claims C31-C39
\* The response the poll client is about to read.
PollResponse == (CHOOSE x \in sent : x.op = "poll" /\ x.req = client.poll.attempt).resp

\* The poll client has ended with a failure and has written nothing.
PollFailed(c) ==
    /\ c.pc = "exited"
    /\ c.exit = {1}
    /\ c.png = {} /\ c.metadata = {} /\ c.stdout = {}

\* C31 (poll client termination): the poll client sends at most
\* PollMaxAttempts requests and only a response it read ends it.  On a
\* non-2xx response, on expired, on an unrecognised status and on waiting at
\* the last attempt it exits 1; on waiting before the last attempt it sends
\* the next request; on completed it exits, and with code 0 only when the
\* payload decrypted and both files are written.
C31_Step ==
    /\ client'.poll.attempt <= PollMaxAttempts
    /\ client'.poll.exit # client.poll.exit => PollPending
    /\ (PollPending /\ client'.poll # client.poll) =>
         LET res == PollResponse
             c == client.poll
             c2 == client'.poll
         IN  IF res.code # 200 THEN PollFailed(c2)
             ELSE IF res.body.status = "waiting"
                  THEN IF c.attempt < PollMaxAttempts
                       THEN c2.pc = "fetching" /\ c2.attempt = c.attempt + 1 /\ c2.exit = {}
                       ELSE PollFailed(c2)
             ELSE IF res.body.status = "expired" THEN PollFailed(c2)
             ELSE IF res.body.status = "completed"
                  THEN /\ c2.pc = "exited"
                       /\ c2.exit = {0} \/ PollFailed(c2)
                       /\ c2.exit = {0} =>
                            /\ decryptEnvelope(The(c.privateKey), res.body.encryptedPayload) # {}
                            /\ c2.png # {} /\ c2.metadata # {}
             ELSE PollFailed(c2)

C31_PollClientTerminates == [][C31_Step]_vars

\* The poll client gave up after its last attempt was answered waiting.
C31_Witness ==
    /\ PollFailed(client.poll)
    /\ client.poll.attempt = PollMaxAttempts
    /\ \E d \in client.poll.data : d.status = "waiting"


\* ---------------------------------------------------- GET /sign/:sessionId
\* The signing page, Bun.file("../public/sign.html").text()
SignPage == "sign.html"

\* Mutant of signPageResponse: the page is refused once the session is no
\* longer waiting, as the info route does.
signPageResponseWaitingOnly(id) ==
    IF getSession(id) = {} \/ objs[id].status # "waiting"
    THEN Response(404, "Session not found or expired")
    ELSE Response(200, SignPage)

\* index.ts app.get("/sign/:sessionId"): c.text(..., 404) or c.html(html)
signPageResponse(id) ==
    IF getSession(id) = {} THEN Response(404, "Session not found or expired")
    ELSE Response(200, SignPage)

GetSignPage(id) ==
    /\ task' = Task("sign", 0, id)
    /\ sent' = {Sent("sign", 0, id, signPageResponse(id))}
    /\ UNCHANGED <<now, advances, objs, sessions, polls, submits, accepted, supplied,
                   completing, client, fax>>

\* The relay with one session and the page route.
PagesNext ==
    \/ \E d \in TimeSteps : Advance(d)
    \/ \E body \in CreateBodies : Len(objs) < MaxTimedSessions /\ CreateSession(body)
    \/ \E id \in SessionIds : GetSignPage(id)
    \/ \E id \in SessionIds : GetInfo(id)
    \/ \E p \in PollIds, id \in SessionIds, q \in TimeoutParams : PollStart(p, id, q)
    \/ \E p \in PollIds : PollTimeout(p)
    \/ \E r \in SubmitIds, id \in SessionIds : SubmitStart(r, id)
    \/ \E r \in SubmitIds, body \in SubmitRequests : SubmitBody(r, body)
    \/ Sweep

SpecPages == Init /\ [][PagesNext]_vars

\* C32 (signing page): GET /sign/:sessionId answers 404 exactly when the id
\* is not a key of the store; for every id in the store it answers 200 with
\* the signing page, whatever the session's status; the store is untouched.
C32_Step ==
    task'.op = "sign" =>
        /\ Cardinality(sent') = 1
        /\ \A m \in sent' :
             /\ m.op = "sign" /\ m.sid = task'.sid
             /\ m.resp.code = 404 <=> task'.sid \notin sessions
             /\ task'.sid \in sessions => m.resp = Response(200, SignPage)
        /\ UNCHANGED <<objs, sessions>>

C32_SignPage == [][C32_Step]_vars

\* The page was served for a session that is no longer waiting.
C32_Witness ==
    /\ task.op = "sign"
    /\ task.sid \in sessions
    /\ objs[task.sid].status # "waiting"
    /\ \E m \in sent : m.resp.code = 200


\* The sessions a sweeper pass finds past expiresAt and still waiting.
Overdue == { id \in sessions : now > objs[id].expiresAt /\ objs[id].status = "waiting" }

\* C33 (sweeper frame): after a sweeper pass no session in the store is
\* waiting past its expiresAt; every session the pass expired has an empty
\* waiter list and each of its former waiters was called with that session,
\* now expired; every other session object keeps its status, payload, audit
\* log and waiters.
C33_Step ==
    task'.op = "sweep" =>
        /\ \A id \in sessions' :
             ~(now' > objs'[id].expiresAt /\ objs'[id].status = "waiting")
        /\ \A id \in Overdue :
             /\ objs'[id].status = "expired"
             /\ objs'[id].waiters = << >>
             /\ \A p \in Range(objs[id].waiters) : Call(p, id) \in task'.called
        /\ \A c \in task'.called : c.session \in Overdue
        /\ \A m \in sent' : m.resp.body = [status |-> "expired"]
        /\ \A id \in DOMAIN objs \ Overdue :
             /\ objs'[id].status = objs[id].status
             /\ objs'[id].encryptedPayload = objs[id].encryptedPayload
             /\ objs'[id].auditLog = objs[id].auditLog
             /\ objs'[id].waiters = objs[id].waiters

C33_SweeperFrame == [][C33_Step]_vars

\* A pass expired a session with a waiter while a completed session was also
\* in the store.
C33_Witness ==
    /\ task.op = "sweep"
    /\ task.called # {}
    /\ \E id \in sessions : objs[id].status = "completed"


\* ------------------------------------------------------ liveness of polls
\* The relay with one session.  The clock of the model is capped, so a poll
\* arrives while the clock can still pass its deadline.
LiveNext ==
    \/ \E d \in TimeSteps : Advance(d)
    \/ \E body \in CreateBodies : Len(objs) < MaxTimedSessions /\ CreateSession(body)
    \/ \E p \in PollIds, id \in SessionIds, q \in TimeoutParams :
         advances < MaxAdvances /\ PollStart(p, id, q)
    \/ \E p \in PollIds : PollTimeout(p)
    \/ \E r \in SubmitIds, id \in SessionIds : SubmitStart(r, id)
    \/ \E r \in SubmitIds, body \in SubmitRequests : SubmitBody(r, body)
    \/ Sweep

\* Time passes, and a timer that is due fires.
TimerFairness ==
    /\ WF_vars(\E d \in TimeSteps : Advance(d))
    /\ \A p \in PollIds : WF_vars(PollTimeout(p))

SpecLive == Init /\ [][LiveNext]_vars /\ TimerFairness

\* C34 (poll liveness): a suspended poll is eventually answered, by a
\* wake-up or by its own timer, whatever submit, the sweeper and deletion do
\* in between.
C34_PollResponds ==
    \A p \in PollIds : (polls[p].pc = "suspended") ~> (polls[p].pc = "done")

\* A poll was answered by its own timer, its session still waiting.
C34_Witness ==
    /\ task.op = "pollTimeout"
    /\ polls[task.req].pc = "done"
    /\ objs[task.sid].status = "waiting"


\* C35 (no lost wake-up): a poll is suspended only on a session that is
\* waiting and that holds its callback; the step that takes the session out
\* of waiting answers every poll suspended on it, with the new status; so a
\* timer answers {status: waiting} only while the session is still waiting.
C35_Step ==
    /\ \A p \in PollIds :
         polls'[p].pc = "suspended" =>
             /\ objs'[polls'[p].sid].status = "waiting"
             /\ p \in Range(objs'[polls'[p].sid].waiters)
    /\ \A p \in PollIds :
         (/\ polls[p].pc = "suspended"
          /\ objs[polls[p].sid].status = "waiting"
          /\ objs'[polls[p].sid].status # "waiting") =>
             /\ polls'[p].pc = "done"
             /\ \E m \in sent' :
                  /\ m.op = "poll" /\ m.req = p
                  /\ m.resp.body.status = objs'[polls[p].sid].status
    /\ task'.op = "pollTimeout" =>
         /\ objs[task'.sid].status = "waiting"
         /\ \A m \in sent' : m.resp.body = [status |-> "waiting"]

C35_NoLostWakeup == [][C35_Step]_vars

\* The sweeper woke one poll of a session on which another poll had timed
\* out before.
C35_Witness ==
    /\ task.op = "sweep"
    /\ Cardinality(task.called) = 2
    /\ Cardinality(sent) = 1
    /\ \E m \in sent : m.op = "poll" /\ m.resp.body.status = "expired"


\* C36 (expiry only by the sweeper): on a stored session whose status is
\* waiting, info answers 200 and submit goes on to read its body and to
\* complete the session, whatever the clock says; only a sweeper pass sets a
\* status to expired, and a completed session stays completed.
C36_Step ==
    /\ (task'.op = "info" /\ task'.sid \in sessions /\ objs[task'.sid].status = "waiting") =>
         \A m \in sent' : m.resp.code = 200
    /\ (task'.op = "submitStart" /\ task'.sid \in sessions
            /\ objs[task'.sid].status = "waiting") =>
         sent' = {} /\ submits'[task'.req].pc = "reading"
    /\ \A b \in task'.arg :
         (task'.op = "submitBody" /\ WellFormed(b) /\ objs[task'.sid].status = "waiting") =>
             /\ objs'[task'.sid].status = "completed"
             /\ Sent("submit", task'.req, task'.sid, Response(200, [status |-> "completed"]))
                    \in sent'
    /\ \A id \in DOMAIN objs :
         /\ (objs[id].status # "expired" /\ objs'[id].status = "expired") => task'.op = "sweep"
         /\ objs[id].status = "completed" => objs'[id].status = "completed"

C36_ExpiryBySweeperOnly == [][C36_Step]_vars

\* A submit completed a session past its expiresAt that the sweeper had not
\* expired.
C36_Witness ==
    /\ task.op = "submitBody"
    /\ now > objs[task.sid].expiresAt
    /\ objs[task.sid].status = "completed"
    /\ Len(objs[task.sid].auditLog) = 2


\* The events of an audit log, in order.
Events(log) == [i \in 1..Len(log) |-> log[i].event]

\* C37 (audit log shapes): the audit log of every session is [created] with
\* status waiting, [created, submitted] with status completed, or
\* [created, expired] with status expired.
C37_AuditLogShape ==
    \A id \in DOMAIN objs :
        \/ Events(objs[id].auditLog) = <<"created">> /\ objs[id].status = "waiting"
        \/ Events(objs[id].auditLog) = <<"created", "submitted">>
             /\ objs[id].status = "completed"
        \/ Events(objs[id].auditLog) = <<"created", "expired">>
             /\ objs[id].status = "expired"


\* The sessions whose waiter list holds the callback of poll p.
RegisteredOn(p, heap) == { id \in DOMAIN heap : p \in Range(heap[id].waiters) }

\* C38 (callbacks at most once): a callback is called only with the session
\* on whose list it stands, and the step that calls it takes it off every
\* list; a callback enters a list only in the start of its own poll, on the
\* session polled, and stands there once.  A poll starts once, so no
\* callback is called twice or with another session.
C38_Step ==
    /\ \A c \in task'.called :
         /\ c.poll \in Range(objs[c.session].waiters)
         /\ RegisteredOn(c.poll, objs') = {}
    /\ \A p \in PollIds :
         /\ Cardinality(RegisteredOn(p, objs')) <= 1
         /\ \A id \in RegisteredOn(p, objs') :
              /\ Cardinality({ i \in DOMAIN objs'[id].waiters : objs'[id].waiters[i] = p }) = 1
              /\ id \notin RegisteredOn(p, objs) =>
                   /\ task'.op = "pollStart" /\ task'.req = p /\ task'.sid = id
                   /\ polls[p].pc = "idle"
         /\ polls'[p].pc = "idle" => polls[p].pc = "idle" /\ RegisteredOn(p, objs') = {}

C38_CallbackOnce == [][C38_Step]_vars

\* A submit called the waiter of its session while a poll was waiting on
\* another session.
C38_Witness ==
    /\ task.op = "submitBody"
    /\ task.called # {}
    /\ \E id \in sessions : id # task.sid /\ objs[id].waiters # << >>

\* ======================================================================
\* The fax routes (src/server/src/routes/fax.ts) over the fax job store.
\* ======================================================================
\* A FaxJob object: [id, fileSize, status, pages, createdAt, completedAt,
\* errorMessage, events, provider, providerFaxId].  `pages` and `completedAt`
\* are {} while unset; an event is [status, detail], its timestamp left out
\* as in the audit log.  The provider's own record of a fax, which
\* simulateStatusChange updates, lies outside the store.
MaxFaxJobs == 1
MaxSims == 3

\* Bytes of PDF taken for one page.
BytesPerPage == 50000

FaxStatuses == {"queued", "sending", "delivered", "failed"}
FaxProviders == {"simulated", "sinch"}
FaxJobIds == 1..MaxFaxJobs
SimIds == 1..MaxSims

\* Bodies of POST /send: the recipient ("" when missing) and the size of the
\* decoded file in bytes.
SendBodies == { [to |-> "+15550100", fileSize |-> 1000],
                [to |-> "+15550100", fileSize |-> 120000],
                [to |-> "", fileSize |-> 1000] }

\* Bodies of POST /jobs/:id/simulate.
SimulateActions == FaxStatuses \cup {Undefined, "cancelled"}
SimulateDetails == {Undefined, "Line busy"}
SimulateBodies == { [action |-> a, detail |-> d] : a \in SimulateActions, d \in SimulateDetails }

FaxEvent(status, detail) == [status |-> status, detail |-> detail]

createFaxJob(f, size, t) ==
    LET id == Len(f.heap) + 1
        job == [id |-> id, fileSize |-> size, status |-> "queued", pages |-> {},
                createdAt |-> t, completedAt |-> {}, errorMessage |-> Undefined,
                events |-> <<FaxEvent("queued", "Fax job created")>>,
                provider |-> Undefined, providerFaxId |-> {}]
    IN  [f EXCEPT !.heap = Append(@, job), !.faxJobs = @ \cup {id}]

getFaxJob(f, id) == IF id \in f.faxJobs THEN {f.heap[id]} ELSE {}

\* Math.max(1, Math.round(sizeBytes / 50000))
estimatePages(size) ==
    LET rounded == (2 * size + BytesPerPage) \div (2 * BytesPerPage)
    IN  IF rounded > 1 THEN rounded ELSE 1

\* The store after updateFaxJobStatus(id, status, detail); the call returns
\* undefined, and changes nothing, when the Map has no such job.
updateFaxJobStatus(f, id, status, detail, t) ==
    IF id \notin f.faxJobs THEN f
    ELSE [f EXCEPT !.heap[id].status = status,
                   !.heap[id].completedAt =
                       IF status \in {"delivered", "failed"} THEN {t} ELSE @,
                   !.heap[id].pages =
                       IF status = "delivered" THEN {estimatePages(f.heap[id].fileSize)} ELSE @,
                   !.heap[id].errorMessage =
                       IF status = "failed" /\ detail # Undefined THEN detail ELSE @,
                   !.heap[id].events = Append(@, FaxEvent(status, detail))]

\* Mutant of validTransitions: a delivered job can be queued again.
validTransitionsRequeueDelivered(status) ==
    CASE status = "queued" -> {"sending", "failed"}
      [] status = "sending" -> {"delivered", "failed"}
      [] status = "delivered" -> {"queued"}
      [] status = "failed" -> {"queued"}

validTransitions(status) ==
    CASE status = "queued" -> {"sending", "failed"}
      [] status = "sending" -> {"delivered", "failed"}
      [] status = "delivered" -> {}
      [] status = "failed" -> {"queued"}

IdleSim == [pc |-> "idle", job |-> 0]

FaxInit ==
    /\ now = 0
    /\ advances = 0
    /\ objs = << >>
    /\ sessions = {}
    /\ polls = [p \in PollIds |-> IdlePoll]
    /\ submits = [r \in SubmitIds |-> IdleSubmit]
    /\ task = Task("init", 0, 0)
    /\ sent = {}
    /\ accepted = [id \in SessionIds |-> {}]
    /\ supplied = << >>
    /\ completing = [id \in SessionIds |-> {}]
    /\ client = NoClient
    /\ \E p \in FaxProviders :
          fax = [NoFaxWith(p) EXCEPT !.sims = [r \in SimIds |-> IdleSim]]

\* A fax handler's task: only the fax side, the task and the responses change.
FaxStep(f, t, responses) ==
    /\ fax' = f
    /\ task' = t
    /\ sent' = responses
    /\ UNCHANGED <<now, advances, objs, sessions, polls, submits, accepted, supplied,
                   completing, client>>

\* POST /send up to `await provider.send(...)`: the body is checked and the
\* job stored.
FaxSendStart(body) ==
    /\ Len(fax.heap) < MaxFaxJobs
    /\ IF body.to = ""
       THEN FaxStep(fax, Task("faxSend", 0, 0),
                    {Sent("faxSend", 0, 0,
                          Response(400, [error |-> "Missing 'to' or 'fileBase64'"]))})
       ELSE LET f == createFaxJob(fax, body.fileSize, now)
                id == Len(f.heap)
            IN  FaxStep([f EXCEPT !.sends = @ \cup {id}], Task("faxSend", 0, id), {})

\* POST /send after the provider has answered (ok) or thrown.
FaxSendEnd(id, ok) ==
    /\ id \in fax.sends
    /\ LET f == [fax EXCEPT !.sends = @ \ {id}]
       IN  IF ok
           THEN FaxStep([f EXCEPT !.heap[id].providerFaxId = {id}, !.heap[id].provider = f.provider],
                        TaskOn("faxSent", 0, id, ok),
                        {Sent("faxSend", 0, id,
                              Response(201, [faxId |-> id, providerFaxId |-> id,
                                             provider |-> f.provider]))})
           ELSE FaxStep(updateFaxJobStatus(f, id, "failed", "Unknown error", now),
                        TaskOn("faxSent", 0, id, ok),
                        {Sent("faxSend", 0, id, Response(500, [error |-> "Unknown error"]))})

\* POST /jobs/:id/simulate up to `await c.req.json()`.
SimulateStart(r, id) ==
    /\ fax.sims[r].pc = "idle"
    /\ \A q \in SimIds : q < r => fax.sims[q].pc # "idle"
    /\ LET found == getFaxJob(fax, id)
           answer(code, text) ==
               FaxStep([fax EXCEPT !.sims[r] = [pc |-> "done", job |-> id]],
                       Task("simulate", r, id),
                       {Sent("simulate", r, id, Response(code, [error |-> text]))})
       IN  IF found = {}
           THEN answer(404, "Fax job not found")
           ELSE IF fax.heap[id].provider = "sinch"
           THEN answer(400, "Cannot simulate Sinch fax - check real status")
           ELSE FaxStep([fax EXCEPT !.sims[r] = [pc |-> "reading", job |-> id]],
                        Task("simulate", r, id), {})

\* The response of the simulate handler once the body is read: 400 for a
\* transition the table does not list, 500 when `updated` is undefined
\* (updated!.id throws), else the updated job.
simulateResponse(f, id, body) ==
    LET job == f.heap[id]
    IN  IF body.action \notin validTransitions(job.status)
        THEN Response(400, [error |-> "Cannot transition", from |-> job.status,
                            to |-> body.action])
        ELSE IF id \notin f.faxJobs
        THEN Response(500, [error |-> "Internal Server Error"])
        ELSE Response(200, [faxId |-> id, status |-> body.action,
                            events |-> Append(job.events, FaxEvent(body.action, body.detail))])

\* POST /jobs/:id/simulate from the body on: the transition is looked up for
\* the status the job has now, and the store updated, in one task.
SimulateBody(r, body) ==
    /\ fax.sims[r].pc = "reading"
    /\ LET id == fax.sims[r].job
           f == [fax EXCEPT !.sims[r].pc = "done"]
       IN  FaxStep(IF body.action \in validTransitions(fax.heap[id].status)
                   THEN updateFaxJobStatus(f, id, body.action, body.detail, now)
                   ELSE f,
                   TaskOn("simulateBody", r, id, body),
                   {Sent("simulate", r, id, simulateResponse(fax, id, body))})

FaxNext ==
    \/ \E d \in TimeSteps : Advance(d)
    \/ \E body \in SendBodies : FaxSendStart(body)
    \/ \E id \in FaxJobIds, ok \in BOOLEAN : FaxSendEnd(id, ok)
    \/ \E r \in SimIds, id \in FaxJobIds : SimulateStart(r, id)
    \/ \E r \in SimIds, body \in SimulateBodies : SimulateBody(r, body)
    \/ Sweep

SpecFax == FaxInit /\ [][FaxNext]_vars

\* ---------------------------------------------------------------- C39
\* The transitions the simulate endpoint is said to allow.
AllowedFaxTransitions ==
    { <<"queued", "sending">>, <<"queued", "failed">>, <<"sending", "delivered">>,
      <<"sending", "failed">>, <<"failed", "queued">> }

\* C39: the simulate endpoint allows only the transitions queued->sending,
\* queued->failed, sending->delivered, sending->failed and failed->queued.
\* Any other requested action, every action on a delivered job included, is
\* answered 400 and leaves the job's status and event list unchanged.  Each
\* accepted transition (answered 200, as every listed transition of a stored
\* job is) sets the status, appends exactly one event and sets completedAt
\* when the new status is delivered or failed.  A listed transition of a job
\* the sweeper deleted while the body was read is answered 500 and changes
\* nothing.
C39_Step ==
    task'.op = "simulateBody" =>
        LET id == task'.sid
            body == CHOOSE b \in task'.arg : TRUE
            before == fax.heap[id]
            after == fax'.heap[id]
            listed == <<before.status, body.action>> \in AllowedFaxTransitions
        IN  /\ Cardinality(sent') = 1
            /\ \A m \in sent' :
                  /\ m.resp.code \in {200, 400, 500}
                  /\ m.resp.code = 400 <=> ~listed
                  /\ m.resp.code = 200 <=> listed /\ id \in fax.faxJobs
                  /\ m.resp.code # 200 => after = before
                  /\ m.resp.code = 200 =>
                        /\ after.status = body.action
                        /\ after.events = Append(before.events,
                                                 FaxEvent(body.action, body.detail))
                        /\ m.resp.body.status = body.action
                        /\ m.resp.body.events = after.events
                        /\ body.action \in {"delivered", "failed"} => after.completedAt = {now}
            /\ after.status # before.status => listed
            /\ before.status = "delivered" => \A m \in sent' : m.resp.code = 400

C39_FaxTransitions == [][C39_Step]_vars

\* An action on a delivered job has just been refused: the job went
\* queued -> sending -> delivered by two accepted transitions before.
C39_Witness ==
    /\ task.op = "simulateBody"
    /\ \E m \in sent : m.resp.code = 400
    /\ fax.heap[task.sid].status = "delivered"
    /\ Len(fax.heap[task.sid].events) = 3
    /\ fax.heap[task.sid].completedAt # {}

====
